---- MODULE Spec2Model ----
(***************************************************************************)
(* Interaction graph of ensight-backend (backend/app.js): the POST         *)
(* /api/graph/interaction handler and upsertGraphNode, run by concurrent   *)
(* requests against one shared key-value store.  Every `await` of the      *)
(* handler is a suspension point: one action of the model is one store (or *)
(* provider) call together with the synchronous code that follows it up to *)
(* the next await.  The TTL cache of backend/lib/cache.js is modelled with *)
(* one action per method; its methods are synchronous.                     *)
(***************************************************************************)
EXTENDS Integers, Sequences, FiniteSets, TLC

(* ---------------------------- bounds ----------------------------------- *)
\* total number of requests received in one behaviour of Spec
MaxCalls == 3
\* total number of requests received in one behaviour of SpecPair
MaxPairCalls == 2
\* total number of requests received in one behaviour of SpecSeq
MaxSeqCalls == 3
\* number of store calls that fail in one behaviour
MaxFailures == 1
\* largest value of Date.now()
MaxTime == 2
\* largest value of Date.now() in the behaviours of SpecCache
MaxCacheTime == 3
\* largest maxEntries a small cache of SpecCache is constructed with
MaxCapacity == 2
\* total number of requests received in one behaviour of SpecAttrs
MaxAttrCalls == 2
\* total number of interactions received in one behaviour of SpecRisk
MaxRiskCalls == 2
\* resolve requests in a run of the resolve route
MaxResolves == 3
\* lifetimes of a cache entry that pass in a run of the resolve route
MaxLifetimes == 1

\* the handlers that can be in flight at the same time; a handler that has
\* responded takes the next request
ReqIds == {"r1", "r2"}

(* ------------------------ JavaScript values ---------------------------- *)
\* a body field that is not there (undefined)
Undefined == "<undefined>"
\* a body field that is there but is not a string (a number, an object)
NotAString == "<number>"
\* null, as stored in ensName / label / fromAddr
Null == "<null>"
\* the outcome of an expression that throws a TypeError
TypeError == "<TypeError>"

IsString(x) == x \notin {Undefined, NotAString}
\* JavaScript truthiness of a body field: undefined and '' are falsy
Truthy(x) == x \notin {Undefined, ""}
\* ...(x != null ? { x } : {}): the field is carried only when it is there
Optional(x) == IF x \notin {Undefined, Null} THEN x ELSE Undefined

\* canonical (lowercase) addresses of the model
Addrs == {"0xaa", "0xbb"}
\* ethers.isAddress: lowercase hex and the checksummed spelling are addresses
IsAddress(s) == s \in {"0xaa", "0xAa", "0xbb", "0xBb"}
\* a bug: the spelling of the caller is kept
ToLowerCase_Identity(s) == s

\* String.prototype.toLowerCase on the strings of the model
ToLowerCase(s) ==
  CASE s = "0xAa" -> "0xaa"
    [] s = "0xBb" -> "0xbb"
    [] OTHER -> s

\* values a caller can put in the "to" and "from" fields of the body
RawTo == {Undefined, NotAString, "", "zz", "0xaa", "0xBb"}
RawFrom == {Undefined, NotAString, "zz", "0xAa"}
\* the bodies of the concurrent runs
RaceTo == {"zz", "0xBb"}
RaceFrom == {Undefined, "0xAa"}

\* the remaining fields of the body, as sent by the wallet extension
TxAttrs == [method |-> "eth_sendTransaction", kind |-> "tx",
            hostname |-> "app.uniswap.org", chainId |-> "1",
            value |-> "1000", hasData |-> "true"]
BareAttrs == [method |-> Undefined, kind |-> Undefined,
              hostname |-> Undefined, chainId |-> Undefined,
              value |-> Undefined, hasData |-> Undefined]
SignAttrs == [method |-> "eth_signTypedData_v4", kind |-> Undefined,
              hostname |-> Undefined, chainId |-> "5",
              value |-> Undefined, hasData |-> Undefined]
Attrs == {TxAttrs, BareAttrs, SignAttrs}
\* an event of another site that carries null and false optional fields
HostAttrs == [method |-> Undefined, kind |-> "sign",
              hostname |-> "opensea.io", chainId |-> Null,
              value |-> "0", hasData |-> "false"]

\* the kinds edgeTypeFromKind knows, each with a method of another type
KindAttrs ==
  {[BareAttrs EXCEPT !.kind = k, !.method = "eth_sign"] :
     k \in {"tx", "sign", "connect", "chain"}}
\* the methods a body can carry
Methods == {Undefined, NotAString, "eth_sendTransaction",
            "eth_signTypedData_v4", "personal_sign"}
\* no kind, or a kind edgeTypeFromKind does not know, with every method
FallbackAttrs ==
  {[BareAttrs EXCEPT !.kind = k, !.method = m] :
     k \in {Undefined, "other"}, m \in Methods}

NoBody == [from |-> Undefined, to |-> Undefined, attrs |-> BareAttrs]

(* --------------------------- the provider ------------------------------ *)
\* provider.lookupAddress: the reverse record of an address, or null
LookupAddress(a) == IF a = "0xaa" THEN "vitalik.eth" ELSE Null

(* ------------------------------ state ---------------------------------- *)
VARIABLES
  redisConfigured,  \* isConfigured of lib/redis.js
  clock,            \* Date.now()
  nodes,            \* graph:node:{address}      -> node record
  edges,            \* graph:edge:{from}:{to}    -> edge record
  edgesOf,          \* graph:edges-of:{address}  -> set of edge keys
  neighbors,        \* graph:neighbors:{address} -> set of addresses
  reqs,             \* the requests: position and locals of each handler
  calls,            \* number of requests received so far
  responses,        \* the responses sent so far, counted by kind
  ttlMs,            \* TTLCache._ttlMs
  maxEntries,       \* TTLCache._maxEntries
  cacheStore,       \* TTLCache._store: the entries in Map insertion order
  last,             \* the last call made on the cache, with what it returned
  blacklist,        \* scamsniffer:addresses   -> set of addresses
  lastUpdated,      \* scamsniffer:lastUpdated -> string, or null
  etag,             \* scamsniffer:etag        -> string, or null
  cronSecret,       \* process.env.CRON_SECRET
  rd,               \* the GET handler of the graph and risk routes
  out,              \* the last response of a graph or risk GET route
  sync,             \* the handler of the blacklist sync
  syncOut,          \* the last response of the blacklist sync
  rs,               \* the handlers of the resolve route
  resolveCalls,     \* number of resolve requests received so far
  obtained,         \* the addresses provider.resolveName returned so far
  resOut            \* the last response of the resolve route

vars == <<redisConfigured, clock, nodes, edges, edgesOf, neighbors, reqs,
          calls, responses, ttlMs, maxEntries, cacheStore, last, blacklist,
          lastUpdated, etag, cronSecret, rd, out, sync, syncOut, rs,
          resolveCalls, obtained, resOut>>
\* the keys of the blacklist
scamsniffer == <<blacklist, lastUpdated, etag>>
\* the state of the routes other than POST /api/graph/interaction
resolve == <<rs, resolveCalls, obtained, resOut>>
routes == <<scamsniffer, cronSecret, rd, out, sync, syncOut, resolve>>
store == <<nodes, edges, edgesOf, neighbors>>
\* the cache object and the record of the calls made on it
ensCache == <<ttlMs, maxEntries, cacheStore, last>>

Froms == Addrs \cup {"unknown"}
EdgeKeys == Froms \X Addrs

NoNode == [address |-> Null, ensName |-> Null, label |-> Null,
           firstSeen |-> 0, lastSeen |-> 0, interactionCount |-> 0]
NoEdge == [from |-> Null, to |-> Null, type |-> "", method |-> "",
           kind |-> "", hostname |-> "", count |-> 0, firstSeen |-> 0,
           lastSeen |-> 0, chainId |-> Undefined, value |-> Undefined,
           hasData |-> Undefined]

IdleReq == [pc |-> "idle", body |-> NoBody, fromAddr |-> Null,
            toAddr |-> Null, now |-> 0, edgeType |-> "", phase |-> "",
            node |-> NoNode, edgeData |-> NoEdge]

\* responses: stored[k] counts { ok: true, stored: true } per edge key,
\* unstored counts { ok: true, stored: false }, invalid the 400s, error
\* the 500s
NoResponses == [stored |-> [k \in EdgeKeys |-> 0], unstored |-> 0,
                invalid |-> 0, error |-> 0]


(* --------------------------- graph helpers ----------------------------- *)
StartsWith(s, prefix) ==
  Len(s) >= Len(prefix) /\ SubSeq(s, 1, Len(prefix)) = prefix

\* a bug: the method is looked at only when there is no kind at all
edgeTypeFromKind_AbsentKindOnly(kind, method) ==
  CASE kind = "tx" -> "sent_tx"
    [] kind = "sign" -> "signed_for"
    [] kind = "connect" -> "connected"
    [] kind = "chain" -> "chain_switch"
    [] kind # Undefined -> "interaction"
    [] OTHER ->
         IF Truthy(method) /\ ~IsString(method) THEN TypeError
         ELSE IF Truthy(method) /\ StartsWith(method, "eth_sendTransaction")
           THEN "sent_tx"
         ELSE IF Truthy(method) /\ StartsWith(method, "eth_sign")
           THEN "signed_for"
         ELSE "interaction"

\* edgeTypeFromKind(kind, method); in the default branch of the switch,
\* method.startsWith throws when method is truthy and not a string
edgeTypeFromKind(kind, method) ==
  CASE kind = "tx" -> "sent_tx"
    [] kind = "sign" -> "signed_for"
    [] kind = "connect" -> "connected"
    [] kind = "chain" -> "chain_switch"
    [] OTHER ->
         IF Truthy(method) /\ ~IsString(method) THEN TypeError
         ELSE IF Truthy(method) /\ StartsWith(method, "eth_sendTransaction")
           THEN "sent_tx"
         ELSE IF Truthy(method) /\ StartsWith(method, "eth_sign")
           THEN "signed_for"
         ELSE "interaction"

\* x || y on strings
OrElse(x, y) == IF Truthy(x) THEN x ELSE y

\* a bug: the check forgets ethers.isAddress
InvalidTo_NoAddressCheck(to) == ~Truthy(to) \/ ~IsString(to)

\* the "to" check of the handler: !to || typeof to !== 'string' || !isAddress(to)
InvalidTo(to) == ~Truthy(to) \/ ~IsString(to) \/ ~IsAddress(to)

\* a bug: any string is taken as the origin address
FromAddrOf_NoAddressCheck(from) ==
  IF Truthy(from) /\ IsString(from) THEN ToLowerCase(from) ELSE Null

\* fromAddr: the lowercased from, or null when it is no valid address
FromAddrOf(from) ==
  IF Truthy(from) /\ IsString(from) /\ IsAddress(from)
    THEN ToLowerCase(from) ELSE Null

\* effectiveFrom = fromAddr || 'unknown'
EffectiveFrom(fromAddr) == IF fromAddr # Null THEN fromAddr ELSE "unknown"

\* the edge key of a request that passed validation
EdgeKeyOf(q) == <<EffectiveFrom(q.fromAddr), q.toAddr>>

\* a bug: the update overwrites firstSeen as well
UpdatedNode_ResetsFirstSeen(existing, now) ==
  [existing EXCEPT !.firstSeen = now, !.lastSeen = now,
                   !.interactionCount = existing.interactionCount + 1]

\* upsertGraphNode, existing branch: the record written back
UpdatedNode(existing, now) ==
  [existing EXCEPT !.lastSeen = now,
                   !.interactionCount = existing.interactionCount + 1]

\* upsertGraphNode, first-seen branch: the record created
NewNode(address, ensName, now) ==
  [address |-> address, ensName |-> ensName,
   label |-> IF ensName \in {Null, ""} THEN Null ELSE ensName,
   firstSeen |-> now, lastSeen |-> now, interactionCount |-> 1]

\* a bug: the record is rebuilt without the optional fields
UpdatedEdge_DropsOptional(existing, now, edgeType, method) ==
  [existing EXCEPT !.count = existing.count + 1, !.lastSeen = now,
                   !.type = edgeType,
                   !.method = OrElse(method, existing.method),
                   !.chainId = Undefined, !.value = Undefined,
                   !.hasData = Undefined]

\* a bug: the update forgets the increment
UpdatedEdge_NoIncrement(existing, now, edgeType, method) ==
  [existing EXCEPT !.lastSeen = now,
                   !.type = edgeType,
                   !.method = OrElse(method, existing.method)]

\* a bug: the update keeps the type the edge was created with
UpdatedEdge_KeepsType(existing, now, edgeType, method) ==
  [existing EXCEPT !.count = existing.count + 1,
                   !.lastSeen = now,
                   !.method = OrElse(method, existing.method)]

\* the handler's edge upsert, existing branch
UpdatedEdge(existing, now, edgeType, method) ==
  [existing EXCEPT !.count = existing.count + 1,
                   !.lastSeen = now,
                   !.type = edgeType,
                   !.method = OrElse(method, existing.method)]

\* a bug: a new edge starts at 2, as if the update branch had also run
NewEdge_CountsTwice(effectiveFrom, toAddr, edgeType, a, now) ==
  [from |-> effectiveFrom, to |-> toAddr, type |-> edgeType,
   method |-> OrElse(a.method, ""), kind |-> OrElse(a.kind, ""),
   hostname |-> OrElse(a.hostname, ""), count |-> 2,
   firstSeen |-> now, lastSeen |-> now,
   chainId |-> Optional(a.chainId), value |-> Optional(a.value),
   hasData |-> Optional(a.hasData)]

\* the handler's edge upsert, first-seen branch
NewEdge(effectiveFrom, toAddr, edgeType, a, now) ==
  [from |-> effectiveFrom, to |-> toAddr, type |-> edgeType,
   method |-> OrElse(a.method, ""), kind |-> OrElse(a.kind, ""),
   hostname |-> OrElse(a.hostname, ""), count |-> 1,
   firstSeen |-> now, lastSeen |-> now,
   chainId |-> Optional(a.chainId), value |-> Optional(a.value),
   hasData |-> Optional(a.hasData)]

\* redis.set(key, value) on a keyed family of records
Put(f, k, v) == [x \in DOMAIN f \cup {k} |-> IF x = k THEN v ELSE f[x]]

\* redis.sadd(key, member) on a family of sets
Sadd(f, k, m) == [f EXCEPT ![k] = f[k] \cup {m}]

(* --------------------------- lib/cache.js ------------------------------ *)
DEFAULT_TTL_MS == 5 * 60 * 1000
MAX_ENTRIES == 10000

\* an argument that is not passed (undefined)
NoArg == -1
\* x ?? y on numbers
Coalesce(x, y) == IF x = NoArg THEN y ELSE x

\* the keys and values of the cache unit tests
Keys == {"first", "second", "third"}
Values == {"v1", "v2"}
\* the ttlMs argument of set: not passed, or a per-entry override
TtlArgs == {NoArg, 1}
\* the arguments the caches of SpecCache are constructed with: none, a TTL
\* only, a TTL and a small capacity
CacheArgs == {<<NoArg, NoArg>>, <<2, NoArg>>}
               \cup {<<2, m>> : m \in 1..MaxCapacity}

NoCall == [op |-> "none", key |-> "", value |-> Undefined, ttl |-> NoArg]

\* constructor(ttlMs = DEFAULT_TTL_MS, maxEntries = MAX_ENTRIES)
constructor(ttlArg, maxArg) ==
  /\ ttlMs = Coalesce(ttlArg, DEFAULT_TTL_MS)
  /\ maxEntries = Coalesce(maxArg, MAX_ENTRIES)
  /\ cacheStore = <<>>
  /\ last = NoCall

\* a bug: Map.prototype.set adds an entry even when the key is there
MapSet_Appends(s, k, e) == Append(s, e)

\* Map.prototype.has, .get, .delete and .set on the entries kept in
\* insertion order: set on a key that is there keeps the key's position
MapHas(s, k) == \E i \in 1..Len(s) : s[i].key = k
MapGet(s, k) == s[CHOOSE i \in 1..Len(s) : s[i].key = k]
MapDelete(s, k) == SelectSeq(s, LAMBDA e : e.key # k)
\* a bug: set on a key that is there moves the key to the newest position
MapSet_MovesToEnd(s, k, e) ==
  Append(SelectSeq(s, LAMBDA x : x.key # k), e)
MapSet(s, k, e) ==
  IF MapHas(s, k)
    THEN [i \in 1..Len(s) |-> IF s[i].key = k THEN e ELSE s[i]]
    ELSE Append(s, e)

\* get size()
size == Len(cacheStore)

\* Date.now() > entry.expiresAt
Expired(entry) == clock > entry.expiresAt

\* a bug: the newest entry is evicted
AfterEviction_Newest(s) ==
  IF Len(s) >= maxEntries /\ s # <<>> THEN SubSeq(s, 1, Len(s) - 1) ELSE s

\* a bug: the cache evicts only once it is over its capacity
AfterEviction_OffByOne(s) ==
  IF Len(s) > maxEntries /\ s # <<>> THEN Tail(s) ELSE s

\* set, the eviction: at capacity the first key of the Map is deleted
\* (on an empty Map the first key is undefined and nothing is deleted)
AfterEviction(s) ==
  IF Len(s) >= maxEntries /\ s # <<>> THEN Tail(s) ELSE s

\* a bug: the ttlMs argument of set is ignored
ExpiresAt_IgnoresArg(ttl) == clock + ttlMs

\* Date.now() + (ttlMs ?? this._ttlMs)
ExpiresAt(ttl) == clock + Coalesce(ttl, ttlMs)

\* the variables no call on the cache changes
graph == <<redisConfigured, nodes, edges, edgesOf, neighbors, reqs, calls,
           responses>>

\* a bug: a read moves the entry to the end of the eviction order
get_Touches(key) ==
  /\ IF ~MapHas(cacheStore, key)
       THEN /\ last' = [NoCall EXCEPT !.op = "get", !.key = key]
            /\ UNCHANGED cacheStore
     ELSE IF Expired(MapGet(cacheStore, key))
       THEN /\ cacheStore' = MapDelete(cacheStore, key)
            /\ last' = [NoCall EXCEPT !.op = "get", !.key = key]
     ELSE /\ cacheStore' = Append(MapDelete(cacheStore, key),
                                  MapGet(cacheStore, key))
          /\ last' = [NoCall EXCEPT !.op = "get", !.key = key,
                                    !.value = MapGet(cacheStore, key).value]
  /\ UNCHANGED <<routes, graph, clock, ttlMs, maxEntries>>

\* a bug: a read of an expired entry removes every expired entry
get_Sweeps(key) ==
  /\ IF ~MapHas(cacheStore, key)
       THEN /\ last' = [NoCall EXCEPT !.op = "get", !.key = key]
            /\ UNCHANGED cacheStore
     ELSE IF Expired(MapGet(cacheStore, key))
       THEN /\ cacheStore' = SelectSeq(cacheStore, LAMBDA e : ~Expired(e))
            /\ last' = [NoCall EXCEPT !.op = "get", !.key = key]
     ELSE /\ last' = [NoCall EXCEPT !.op = "get", !.key = key,
                                    !.value = MapGet(cacheStore, key).value]
          /\ UNCHANGED cacheStore
  /\ UNCHANGED <<routes, graph, clock, ttlMs, maxEntries>>

\* get(key), as a call made inside a step of a handler: what it does to
\* the Map, and what it returns (last'.value)
ensCacheGet(key) ==
  IF ~MapHas(cacheStore, key)
    THEN /\ last' = [NoCall EXCEPT !.op = "get", !.key = key]
         /\ UNCHANGED cacheStore
  ELSE IF Expired(MapGet(cacheStore, key))
    THEN /\ cacheStore' = MapDelete(cacheStore, key)
         /\ last' = [NoCall EXCEPT !.op = "get", !.key = key]
  ELSE /\ last' = [NoCall EXCEPT !.op = "get", !.key = key,
                                 !.value = MapGet(cacheStore, key).value]
       /\ UNCHANGED cacheStore

\* get(key)
get(key) ==
  /\ ensCacheGet(key)
  /\ UNCHANGED <<routes, graph, clock, ttlMs, maxEntries>>

\* set(key, value, ttlMs), as a call made inside a step of a handler
ensCacheSet(key, value, ttl) ==
  /\ cacheStore' = MapSet(AfterEviction(cacheStore), key,
                          [key |-> key, value |-> value,
                           expiresAt |-> ExpiresAt(ttl)])
  /\ last' = [op |-> "set", key |-> key, value |-> value, ttl |-> ttl]

\* set(key, value, ttlMs)
set(key, value, ttl) ==
  /\ ensCacheSet(key, value, ttl)
  /\ UNCHANGED <<routes, graph, clock, ttlMs, maxEntries>>

\* a bug: has looks at the entry without the effect of get
has_Peeks(key) ==
  /\ last' = [NoCall EXCEPT !.op = "has", !.key = key,
                            !.value = IF MapHas(cacheStore, key)
                                          /\ ~Expired(MapGet(cacheStore, key))
                                        THEN "true" ELSE "false"]
  /\ UNCHANGED <<cacheStore, routes, graph, clock, ttlMs, maxEntries>>

\* has(key): this.get(key) !== undefined, with the effect of get
has(key) ==
  /\ IF ~MapHas(cacheStore, key)
       THEN /\ last' = [NoCall EXCEPT !.op = "has", !.key = key,
                                      !.value = "false"]
            /\ UNCHANGED cacheStore
     ELSE IF Expired(MapGet(cacheStore, key))
       THEN /\ cacheStore' = MapDelete(cacheStore, key)
            /\ last' = [NoCall EXCEPT !.op = "has", !.key = key,
                                      !.value = "false"]
     ELSE /\ last' = [NoCall EXCEPT !.op = "has", !.key = key,
                                    !.value = "true"]
          /\ UNCHANGED cacheStore
  /\ UNCHANGED <<routes, graph, clock, ttlMs, maxEntries>>

\* delete(key)
delete(key) ==
  /\ cacheStore' = MapDelete(cacheStore, key)
  /\ last' = [NoCall EXCEPT !.op = "delete", !.key = key]
  /\ UNCHANGED <<routes, graph, clock, ttlMs, maxEntries>>

\* clear()
clear ==
  /\ cacheStore' = <<>>
  /\ last' = [NoCall EXCEPT !.op = "clear"]
  /\ UNCHANGED <<routes, graph, clock, ttlMs, maxEntries>>

\* time passes between two calls on the cache
Advance ==
  /\ clock < MaxCacheTime
  /\ clock' = clock + 1
  /\ UNCHANGED <<routes, graph, ensCache>>

(* ------------------------- graph read routes --------------------------- *)
\* a value that is there: neither undefined, nor null, nor ''
Present(x) == x \notin {Undefined, Null, ""}

\* the :address parameter of the GET routes
RawAddresses == {"0xAa", "0xbb", " 0xbb ", "zz"}
\* String.prototype.trim on the strings of the model
Trim(s) == IF s = " 0xbb " THEN "0xbb" ELSE s

\* emptyNode(address)
emptyNode(address) ==
  [address |-> address, ensName |-> Null, label |-> Null, firstSeen |-> 0,
   lastSeen |-> 0, interactionCount |-> 0, flagged |-> FALSE]

\* { ...node, flagged }
Spread(node, flagged) ==
  [address |-> node.address, ensName |-> node.ensName, label |-> node.label,
   firstSeen |-> node.firstSeen, lastSeen |-> node.lastSeen,
   interactionCount |-> node.interactionCount, flagged |-> flagged]

\* the riskSummary of the answer given without a store
NoSummary == [flagged |-> FALSE, flaggedNeighborCount |-> 0,
              totalNeighborCount |-> 0]

\* the locals of a GET handler: the keys and neighbors still to visit, and
\* what was collected so far
IdleRead == [pc |-> "idle", route |-> "", raw |-> "", address |-> "",
             node |-> emptyNode(""), edgeKeys |-> {}, edges |-> {},
             flagged |-> FALSE, nbs |-> {}, nb |-> "", total |-> 0,
             flaggedNeighborCount |-> 0, found |-> {}]

\* a response, with the parameter of its request: lastUpdated is <<>> for
\* null and <<n>> for the number n
NoOut == [route |-> "", raw |-> "", status |-> 0, address |-> "",
          node |-> emptyNode(""),
          edges |-> {}, riskSummary |-> NoSummary, neighbors |-> {},
          flagged |-> FALSE, lastUpdated |-> <<>>]

\* the position after the edges were read
AfterEdges(q) == IF q.route = "address" THEN "flagged" ELSE "respond"

\* res.json(...) of the two graph routes
ReadOut(q) ==
  IF q.route = "address"
    THEN [NoOut EXCEPT !.route = "address", !.raw = q.raw, !.status = 200,
                       !.node = Spread(q.node, q.flagged),
                       !.edges = q.edges,
                       !.riskSummary =
                          [flagged |-> q.flagged,
                           flaggedNeighborCount |-> q.flaggedNeighborCount,
                           totalNeighborCount |-> q.total]]
    ELSE [NoOut EXCEPT !.route = "neighbors", !.raw = q.raw,
                       !.status = 200,
                       !.address = q.address, !.neighbors = q.found,
                       !.edges = q.edges]

\* the handler goes on to its next await, or answers after its last one
Continue(q) ==
  IF q.pc = "respond"
    THEN rd' = IdleRead /\ out' = ReadOut(q)
    ELSE rd' = q /\ UNCHANGED out

\* what no GET route of the graph changes
readFrame == <<graph, clock, ensCache, scamsniffer, cronSecret, sync, syncOut,
               resolve>>

\* a bug: the graph routes do not look at redisConfigured
GraphStart_NoConfigCheck(route, raw, unstored) ==
  LET address == Trim(raw) IN
  /\ rd.pc = "idle"
  /\ IF ~Truthy(address) \/ ~IsAddress(address)
       THEN /\ out' = [NoOut EXCEPT !.route = route, !.raw = raw,
                                    !.status = 400]
            /\ UNCHANGED rd
     ELSE /\ rd' = [IdleRead EXCEPT
                      !.pc = IF route = "address" THEN "nodeGet"
                             ELSE "neighbors",
                      !.route = route, !.raw = raw,
                      !.address = ToLowerCase(address)]
          /\ UNCHANGED out
  /\ UNCHANGED readFrame

\* the validation and the configuration check of the two graph routes
GraphStart(route, raw, unstored) ==
  LET address == Trim(raw) IN
  /\ rd.pc = "idle"
  /\ IF ~Truthy(address) \/ ~IsAddress(address)
       THEN /\ out' = [NoOut EXCEPT !.route = route, !.raw = raw,
                                    !.status = 400]
            /\ UNCHANGED rd
     ELSE IF ~redisConfigured
       THEN /\ out' = [unstored EXCEPT !.route = route, !.raw = raw,
                                       !.status = 200]
            /\ UNCHANGED rd
     ELSE /\ rd' = [IdleRead EXCEPT
                      !.pc = IF route = "address" THEN "nodeGet"
                             ELSE "neighbors",
                      !.route = route, !.raw = raw,
                      !.address = ToLowerCase(address)]
          /\ UNCHANGED out
  /\ UNCHANGED readFrame

\* GET /api/graph/address/:address up to its first await
GraphAddress(raw) ==
  GraphStart("address", raw,
             [NoOut EXCEPT !.node = emptyNode(ToLowerCase(Trim(raw)))])

\* GET /api/graph/address/:address/neighbors up to its first await
GraphNeighbors(raw) ==
  GraphStart("neighbors", raw,
             [NoOut EXCEPT !.address = ToLowerCase(Trim(raw))])

\* redis.get(graph:node:address): the record, or emptyNode(address)
ReadNode(a) ==
  IF a \in DOMAIN nodes THEN Spread(nodes[a], FALSE) ELSE emptyNode(a)

\* a bug: reading an address without a record creates the record
AddrNodeGet_Creates ==
  /\ rd.pc = "nodeGet"
  /\ rd' = [rd EXCEPT !.pc = "edgesOf", !.node = ReadNode(rd.address)]
  /\ nodes' = IF rd.address \in DOMAIN nodes THEN nodes
              ELSE Put(nodes, rd.address, NewNode(rd.address, Null, 0))
  /\ UNCHANGED <<redisConfigured, edges, edgesOf, neighbors, reqs, calls,
                 responses, clock, ensCache, scamsniffer, cronSecret, sync,
                 resolve,
                 syncOut, out>>

\* address route: the node is read
AddrNodeGet ==
  /\ rd.pc = "nodeGet"
  /\ rd' = [rd EXCEPT !.pc = "edgesOf", !.node = ReadNode(rd.address)]
  /\ UNCHANGED <<out, readFrame>>

\* smembers(graph:edges-of:address)
ReadEdgesOf ==
  /\ rd.pc = "edgesOf"
  /\ Continue([rd EXCEPT !.edgeKeys = edgesOf[rd.address],
                         !.pc = IF edgesOf[rd.address] = {}
                                  THEN AfterEdges(rd) ELSE "edgeGet"])
  /\ UNCHANGED readFrame

\* a bug: a key of the index without a record is answered as an empty edge
ReadEdgeGet_KeepsMissing(ek) ==
  /\ rd.pc = "edgeGet"
  /\ ek \in rd.edgeKeys
  /\ Continue([rd EXCEPT
       !.edges = @ \cup {IF ek \in DOMAIN edges THEN edges[ek] ELSE NoEdge},
       !.edgeKeys = @ \ {ek},
       !.pc = IF rd.edgeKeys = {ek} THEN AfterEdges(rd) ELSE "edgeGet"])
  /\ UNCHANGED readFrame

\* a bug: a key of the index without a record is removed from the index
ReadEdgeGet_Prunes(ek) ==
  /\ rd.pc = "edgeGet"
  /\ ek \in rd.edgeKeys
  /\ Continue([rd EXCEPT
       !.edges = IF ek \in DOMAIN edges THEN @ \cup {edges[ek]} ELSE @,
       !.edgeKeys = @ \ {ek},
       !.pc = IF rd.edgeKeys = {ek} THEN AfterEdges(rd) ELSE "edgeGet"])
  /\ edgesOf' = IF ek \in DOMAIN edges THEN edgesOf
                ELSE [edgesOf EXCEPT ![rd.address] = @ \ {ek}]
  /\ UNCHANGED <<redisConfigured, nodes, edges, neighbors, reqs, calls,
                 responses, clock, ensCache, scamsniffer, cronSecret, sync,
                 resolve,
                 syncOut>>

\* one turn of the loop over edgeKeys: redis.get(graph:edge:ek); a key
\* without a record is skipped
ReadEdgeGet(ek) ==
  /\ rd.pc = "edgeGet"
  /\ ek \in rd.edgeKeys
  /\ Continue([rd EXCEPT
       !.edges = IF ek \in DOMAIN edges THEN @ \cup {edges[ek]} ELSE @,
       !.edgeKeys = @ \ {ek},
       !.pc = IF rd.edgeKeys = {ek} THEN AfterEdges(rd) ELSE "edgeGet"])
  /\ UNCHANGED readFrame

\* address route: redis.sismember(scamsniffer:addresses, address)
AddrFlagged ==
  /\ rd.pc = "flagged"
  /\ rd' = [rd EXCEPT !.pc = "neighbors",
                      !.flagged = rd.address \in blacklist]
  /\ UNCHANGED <<out, readFrame>>

\* smembers(graph:neighbors:address)
ReadNeighbors ==
  LET nbs == neighbors[rd.address] IN
  /\ rd.pc = "neighbors"
  /\ Continue([rd EXCEPT
       !.nbs = nbs, !.total = Cardinality(nbs),
       !.pc = IF rd.route = "address"
                THEN (IF nbs = {} THEN "respond" ELSE "nbFlag")
                ELSE (IF nbs = {} THEN "edgesOf" ELSE "nbNode")])
  /\ UNCHANGED readFrame

\* a bug: every neighbor is counted as flagged
AddrNbFlag_CountsAll(nb) ==
  /\ rd.pc = "nbFlag"
  /\ nb \in rd.nbs
  /\ Continue([rd EXCEPT
       !.flaggedNeighborCount = @ + 1,
       !.nbs = @ \ {nb},
       !.pc = IF rd.nbs = {nb} THEN "respond" ELSE "nbFlag"])
  /\ UNCHANGED readFrame

\* address route, one turn of the loop over neighbors:
\* redis.sismember(scamsniffer:addresses, nb)
AddrNbFlag(nb) ==
  /\ rd.pc = "nbFlag"
  /\ nb \in rd.nbs
  /\ Continue([rd EXCEPT
       !.flaggedNeighborCount = IF nb \in blacklist THEN @ + 1 ELSE @,
       !.nbs = @ \ {nb},
       !.pc = IF rd.nbs = {nb} THEN "respond" ELSE "nbFlag"])
  /\ UNCHANGED readFrame

\* neighbors route, one turn of the loop: redis.get(graph:node:nb)
NbNode(nb) ==
  /\ rd.pc = "nbNode"
  /\ nb \in rd.nbs
  /\ rd' = [rd EXCEPT !.pc = "nbNodeFlag", !.nb = nb, !.node = ReadNode(nb)]
  /\ UNCHANGED <<out, readFrame>>

\* neighbors route, the same turn: redis.sismember(..., nb) and the push
NbNodeFlag ==
  /\ rd.pc = "nbNodeFlag"
  /\ rd' = [rd EXCEPT
       !.found = @ \cup {Spread(rd.node, rd.nb \in blacklist)},
       !.nbs = @ \ {rd.nb}, !.nb = "", !.node = emptyNode(""),
       !.pc = IF rd.nbs = {rd.nb} THEN "edgesOf" ELSE "nbNode"]
  /\ UNCHANGED <<out, readFrame>>

(* ----------------------------- risk lookup ----------------------------- *)
\* String(Date.now()) and Number(lastUpdated) on the times of the model
Times == 0..(MaxTime + 1)
Number(str) == CHOOSE n \in Times : ToString(n) = str

\* GET /api/risk/address/:address up to its first await
RiskAddress(raw) ==
  LET address == Trim(raw) IN
  /\ rd.pc = "idle"
  /\ IF ~Truthy(address) \/ ~IsAddress(address)
       THEN /\ out' = [NoOut EXCEPT !.route = "risk", !.raw = raw,
                                    !.status = 400]
            /\ UNCHANGED rd
     ELSE IF ~redisConfigured
       THEN /\ out' = [NoOut EXCEPT !.route = "risk", !.raw = raw,
                                    !.status = 200]
            /\ UNCHANGED rd
     ELSE /\ rd' = [IdleRead EXCEPT !.pc = "riskFlag", !.route = "risk",
                                    !.raw = raw,
                                    !.address = ToLowerCase(address)]
          /\ UNCHANGED out
  /\ UNCHANGED readFrame

\* redis.sismember(scamsniffer:addresses, address)
RiskFlag ==
  /\ rd.pc = "riskFlag"
  /\ rd' = [rd EXCEPT !.pc = "riskUpdated",
                      !.flagged = rd.address \in blacklist]
  /\ UNCHANGED <<out, readFrame>>

\* redis.get(scamsniffer:lastUpdated), then the answer
RiskUpdated ==
  /\ rd.pc = "riskUpdated"
  /\ rd' = IdleRead
  /\ out' = [NoOut EXCEPT !.route = "risk", !.raw = rd.raw,
                          !.status = 200, !.flagged = rd.flagged,
                          !.lastUpdated = IF Present(lastUpdated)
                                            THEN <<Number(lastUpdated)>>
                                            ELSE <<>>]
  /\ UNCHANGED readFrame

\* the pending store call of a GET handler throws: the catch block answers
\* 500, or 503 on the risk route
ReadFail ==
  /\ rd.pc # "idle"
  /\ rd' = IdleRead
  /\ out' = [NoOut EXCEPT !.route = rd.route, !.raw = rd.raw,
                          !.status = IF rd.route = "risk" THEN 503 ELSE 500]
  /\ UNCHANGED readFrame

\* one step of the GET handler after its first await
ReadStep ==
  \/ AddrNodeGet
  \/ ReadEdgesOf
  \/ \E ek \in EdgeKeys : ReadEdgeGet(ek)
  \/ AddrFlagged
  \/ ReadNeighbors
  \/ \E nb \in Addrs : AddrNbFlag(nb)
  \/ \E nb \in Addrs : NbNode(nb)
  \/ NbNodeFlag
  \/ RiskFlag
  \/ RiskUpdated

(* ---------------------------- blacklist sync --------------------------- *)
\* the values of process.env.CRON_SECRET and of the Authorization header
CronSecrets == {Undefined, "test-cron-secret"}
AuthHeaders == {Undefined, "Bearer wrong-secret", "Bearer test-cron-secret",
                "Bearer <undefined>"}
\* `Bearer ${CRON_SECRET}`
Bearer(secret) == "Bearer " \o secret

\* what fetch(url) and resp.json() give: not modified, or a list with or
\* without an etag header
FetchData == {<<>>, <<"0xAa">>, <<"zz", "0xbb">>, <<"0xAa", "0xbb">>}
FetchResponses ==
  {[status |-> 304, etag |-> Null, data |-> <<>>]}
    \cup [status : {200}, etag : {Null, "W/abc"}, data : FetchData]

\* raw.filter(string and isAddress).map(toLowerCase)
RECURSIVE FilterAddresses(_)
FilterAddresses(raw) ==
  IF raw = <<>> THEN <<>>
  ELSE IF IsString(Head(raw)) /\ IsAddress(Head(raw))
    THEN <<ToLowerCase(Head(raw))>> \o FilterAddresses(Tail(raw))
  ELSE FilterAddresses(Tail(raw))

\* the locals of the sync handler; before is no local of the code: it
\* records the members of the set when the request arrived
IdleSync == [pc |-> "idle", auth |-> Undefined, etag |-> Null,
             newEtag |-> Null, data |-> <<>>,
             addresses |-> <<>>, count |-> 0, before |-> {}]
\* a response of the sync, with the Authorization header of its request
NoSyncOut == [auth |-> Undefined, status |-> 0, skipped |-> FALSE,
              count |-> 0]

\* what no step of the sync but the named ones changes
syncFrame == <<graph, clock, ensCache, cronSecret, rd, out, resolve>>

\* a bug: the store-configured check comes first
SyncStart_ConfigFirst(auth) ==
  /\ sync.pc = "idle"
  /\ IF ~redisConfigured
       THEN /\ syncOut' = [NoSyncOut EXCEPT !.auth = auth, !.status = 503]
            /\ UNCHANGED sync
     ELSE IF ~Truthy(cronSecret) \/ auth # Bearer(cronSecret)
       THEN /\ syncOut' = [NoSyncOut EXCEPT !.auth = auth, !.status = 401]
            /\ UNCHANGED sync
     ELSE /\ sync' = [IdleSync EXCEPT !.pc = "etagGet", !.auth = auth,
                                      !.before = blacklist]
          /\ UNCHANGED syncOut
  /\ UNCHANGED <<syncFrame, scamsniffer>>

\* GET /api/cron/scamsniffer-sync up to its first await
SyncStart(auth) ==
  /\ sync.pc = "idle"
  /\ IF ~Truthy(cronSecret) \/ auth # Bearer(cronSecret)
       THEN /\ syncOut' = [NoSyncOut EXCEPT !.auth = auth, !.status = 401]
            /\ UNCHANGED sync
     ELSE IF ~redisConfigured
       THEN /\ syncOut' = [NoSyncOut EXCEPT !.auth = auth, !.status = 503]
            /\ UNCHANGED sync
     ELSE /\ sync' = [IdleSync EXCEPT !.pc = "etagGet", !.auth = auth,
                                      !.before = blacklist]
          /\ UNCHANGED syncOut
  /\ UNCHANGED <<syncFrame, scamsniffer>>

\* redis.get(scamsniffer:etag)
SyncEtagGet ==
  /\ sync.pc = "etagGet"
  /\ sync' = [sync EXCEPT !.pc = "fetch", !.etag = etag]
  /\ UNCHANGED <<syncFrame, scamsniffer, syncOut>>

\* fetch(url) and resp.json() return: not modified, or the addresses
SyncFetch(resp) ==
  LET addresses == FilterAddresses(resp.data) IN
  /\ sync.pc = "fetch"
  /\ IF resp.status = 304
       THEN /\ sync' = IdleSync
            /\ syncOut' = [NoSyncOut EXCEPT !.auth = sync.auth,
                                            !.status = 200, !.skipped = TRUE]
       ELSE /\ sync' = [sync EXCEPT
                 !.pc = IF Len(addresses) > 0 THEN "del"
                        ELSE "setLastUpdated",
                 !.newEtag = resp.etag, !.data = resp.data,
                 !.addresses = addresses,
                 !.count = Len(addresses)]
            /\ UNCHANGED syncOut
  /\ UNCHANGED <<syncFrame, scamsniffer>>

\* a bug: the new addresses are added to the old set
SyncDel_Keeps ==
  /\ sync.pc = "del"
  /\ sync' = [sync EXCEPT !.pc = "sadd"]
  /\ UNCHANGED <<syncFrame, scamsniffer, syncOut>>

\* redis.del(scamsniffer:addresses)
SyncDel ==
  /\ sync.pc = "del"
  /\ blacklist' = {}
  /\ sync' = [sync EXCEPT !.pc = "sadd"]
  /\ UNCHANGED <<syncFrame, lastUpdated, etag, syncOut>>

\* a bug: the members are added in one store call
SyncSadd_AllAtOnce ==
  /\ sync.pc = "sadd"
  /\ blacklist' = blacklist
       \cup {sync.addresses[i] : i \in 1..Len(sync.addresses)}
  /\ sync' = [sync EXCEPT !.addresses = <<>>, !.pc = "setLastUpdated"]
  /\ UNCHANGED <<syncFrame, lastUpdated, etag, syncOut>>

\* one turn of the loop: redis.sadd(scamsniffer:addresses, addr)
SyncSadd ==
  /\ sync.pc = "sadd"
  /\ blacklist' = blacklist \cup {Head(sync.addresses)}
  /\ sync' = [sync EXCEPT
       !.addresses = Tail(@),
       !.pc = IF Len(sync.addresses) = 1 THEN "setLastUpdated" ELSE "sadd"]
  /\ UNCHANGED <<syncFrame, lastUpdated, etag, syncOut>>

\* res.json({ ok: true, count })
SyncOk == [NoSyncOut EXCEPT !.auth = sync.auth, !.status = 200,
                           !.count = sync.count]

\* redis.set(scamsniffer:lastUpdated, String(Date.now()))
SyncSetLastUpdated ==
  /\ sync.pc = "setLastUpdated"
  /\ lastUpdated' = ToString(clock)
  /\ IF Present(sync.newEtag)
       THEN /\ sync' = [sync EXCEPT !.pc = "setEtag"]
            /\ UNCHANGED syncOut
       ELSE /\ sync' = IdleSync
            /\ syncOut' = SyncOk
  /\ UNCHANGED <<syncFrame, blacklist, etag>>

\* redis.set(scamsniffer:etag, newEtag), then the answer
SyncSetEtag ==
  /\ sync.pc = "setEtag"
  /\ etag' = sync.newEtag
  /\ sync' = IdleSync
  /\ syncOut' = SyncOk
  /\ UNCHANGED <<syncFrame, blacklist, lastUpdated>>

\* the pending store call or the fetch throws: the catch block answers 500
SyncFail ==
  /\ sync.pc # "idle"
  /\ sync' = IdleSync
  /\ syncOut' = [NoSyncOut EXCEPT !.auth = sync.auth, !.status = 500]
  /\ UNCHANGED <<syncFrame, scamsniffer>>

\* one step of the sync after its first await
SyncStep ==
  \/ SyncEtagGet
  \/ \E resp \in FetchResponses : SyncFetch(resp)
  \/ SyncDel
  \/ SyncSadd
  \/ SyncSetLastUpdated
  \/ SyncSetEtag

(* ----------------------------- ENS resolve ----------------------------- *)
\* the concurrent handlers of GET /api/ens/resolve/:name
ResIds == {"q1", "q2"}

\* the :name parameter: a name in mixed case, a second name, a name without
\* an address, and a name without a TLD
RawNames == {"Vitalik.ETH", "nick.eth", "notfound.eth", "vitalik"}

\* validateName(name): valid and normalized (lowercase)
validateName(name) ==
  CASE name = "Vitalik.ETH" -> [valid |-> TRUE, normalized |-> "vitalik.eth"]
    [] name \in {"vitalik.eth", "nick.eth", "notfound.eth"} ->
         [valid |-> TRUE, normalized |-> name]
    [] OTHER -> [valid |-> FALSE, normalized |-> Null]

\* the normalized names
Names == {"vitalik.eth", "nick.eth", "notfound.eth"}

\* provider.resolveName(name): the address the name points to when the
\* provider is asked, which for vitalik.eth changes between two answers;
\* null for a name without an address
ResolveName(name) ==
  CASE name = "vitalik.eth" -> {"0xd8dA", "0xF00d"}
    [] name = "nick.eth" -> {"0xb8c2"}
    [] OTHER -> {Null}

\* `resolve:${normalized}`
cacheKey(normalized) == "resolve:" \o normalized

IdleResolve == [pc |-> "idle", normalized |-> ""]

\* a response of the resolve route: called tells whether the handler called
\* provider.resolveName
NoResOut == [q |-> "", status |-> 0, name |-> "", address |-> Null,
             called |-> FALSE]

\* a bug: the route does not look into the cache
ResolveStart_NoCache(q, name) ==
  LET v == validateName(name) IN
  /\ rs[q].pc = "idle"
  /\ resolveCalls < MaxResolves
  /\ resolveCalls' = resolveCalls + 1
  /\ IF ~v.valid
       THEN /\ resOut' = [NoResOut EXCEPT !.q = q, !.status = 400]
            /\ UNCHANGED rs
       ELSE /\ rs' = [rs EXCEPT ![q] = [pc |-> "resolveName",
                                        normalized |-> v.normalized]]
            /\ UNCHANGED resOut
  /\ UNCHANGED <<graph, clock, ensCache, scamsniffer, cronSecret, rd, out,
                 sync, syncOut, obtained>>

\* the handler up to its await: validateName, ensCache.get(cacheKey), and
\* the answer when the address is cached
ResolveStart(q, name) ==
  LET v == validateName(name) IN
  /\ rs[q].pc = "idle"
  /\ resolveCalls < MaxResolves
  /\ resolveCalls' = resolveCalls + 1
  /\ IF ~v.valid
       THEN /\ resOut' = [NoResOut EXCEPT !.q = q, !.status = 400]
            /\ UNCHANGED <<rs, cacheStore, last>>
       ELSE /\ ensCacheGet(cacheKey(v.normalized))
            /\ IF last'.value # Undefined
                 THEN /\ resOut' = [NoResOut EXCEPT
                                      !.q = q, !.status = 200,
                                      !.name = v.normalized,
                                      !.address = last'.value]
                      /\ UNCHANGED rs
                 ELSE /\ rs' = [rs EXCEPT ![q] =
                                  [pc |-> "resolveName",
                                   normalized |-> v.normalized]]
                      /\ UNCHANGED resOut
  /\ UNCHANGED <<graph, clock, ttlMs, maxEntries, scamsniffer, cronSecret, rd,
                 out, sync, syncOut, obtained>>

\* provider.resolveName(normalized) returns address: it is cached if there
\* is one, and the handler answers 200 or 404
ResolveReturn(q, address) ==
  LET n == rs[q].normalized IN
  /\ rs[q].pc = "resolveName"
  /\ address \in ResolveName(n)
  /\ IF Truthy(address)
       THEN /\ ensCacheSet(cacheKey(n), address, NoArg)
            /\ obtained' = Append(obtained, [name |-> n, address |-> address,
                                             at |-> clock])
       ELSE UNCHANGED <<cacheStore, last, obtained>>
  /\ resOut' = [q |-> q, status |-> IF Truthy(address) THEN 200 ELSE 404,
                name |-> n, address |-> address, called |-> TRUE]
  /\ rs' = [rs EXCEPT ![q] = IdleResolve]
  /\ UNCHANGED <<graph, clock, ttlMs, maxEntries, scamsniffer, cronSecret, rd,
                 out, sync, syncOut, resolveCalls>>

\* provider.resolveName throws: the catch block answers 500
ResolveThrows(q) ==
  /\ rs[q].pc = "resolveName"
  /\ resOut' = [NoResOut EXCEPT !.q = q, !.status = 500,
                                !.name = rs[q].normalized, !.called = TRUE]
  /\ rs' = [rs EXCEPT ![q] = IdleResolve]
  /\ UNCHANGED <<graph, clock, ensCache, scamsniffer, cronSecret, rd, out,
                 sync, syncOut, resolveCalls, obtained>>

\* time passes: by the lifetime of an entry, which leads to the last
\* millisecond at which an entry cached now is served, or by one millisecond
\* at the start of a lifetime
Elapse(ms) ==
  /\ clock + ms <= 1 + MaxLifetimes * (DEFAULT_TTL_MS + 1)
  /\ ms = 1 => clock % DEFAULT_TTL_MS = 1
  /\ clock' = clock + ms
  /\ UNCHANGED <<graph, ensCache, routes>>

(* ------------------------------ Init ----------------------------------- *)
\* the server at start, no request received
InitServer ==
  /\ redisConfigured \in BOOLEAN
  /\ clock = 1
  /\ reqs = [r \in ReqIds |-> IdleReq]
  /\ calls = 0
  /\ responses = NoResponses
  /\ rd = IdleRead
  /\ out = NoOut
  /\ sync = IdleSync
  /\ syncOut = NoSyncOut
  /\ rs = [q \in ResIds |-> IdleResolve]
  /\ resolveCalls = 0
  /\ obtained = <<>>
  /\ resOut = NoResOut

\* the empty store
EmptyStore ==
  /\ nodes = <<>>
  /\ edges = <<>>
  /\ edgesOf = [a \in Addrs |-> {}]
  /\ neighbors = [a \in Addrs |-> {}]
  /\ blacklist = {}
  /\ lastUpdated = Null
  /\ etag = Null

\* the empty graph store
InitGraph == InitServer /\ EmptyStore /\ cronSecret = Undefined

\* the server at start: ensCache = new TTLCache()
Init == InitGraph /\ constructor(NoArg, NoArg)

\* a store left by an earlier run in which the record of an edge was lost:
\* the key of the edge is still in the index of its "to" address
LeftoverStore ==
  /\ nodes = <<>>
  /\ edges = <<>>
  /\ edgesOf = [a \in Addrs |-> IF a = "0xbb" THEN {<<"unknown", "0xbb">>}
                                ELSE {}]
  /\ neighbors = [a \in Addrs |-> {}]
  /\ blacklist = {}
  /\ lastUpdated = Null
  /\ etag = Null

\* the server at start on a store that is empty or left by an earlier run
InitRisk ==
  /\ InitServer
  /\ EmptyStore \/ LeftoverStore
  /\ cronSecret \in CronSecrets
  /\ constructor(NoArg, NoArg)

\* a cache of the unit tests: new TTLCache(...)
InitCache ==
  /\ InitGraph
  /\ redisConfigured
  /\ \E args \in CacheArgs : constructor(args[1], args[2])

(* ----------------------------- actions --------------------------------- *)
\* a POST /api/graph/interaction arrives with its parsed body
Receive(r, body, max) ==
  /\ reqs[r].pc = "idle"
  /\ calls < max
  /\ reqs' = [reqs EXCEPT ![r] = [IdleReq EXCEPT !.pc = "received",
                                                 !.body = body]]
  /\ calls' = calls + 1
  /\ UNCHANGED <<routes, ensCache, redisConfigured, clock, store, responses>>

\* the handler up to its first await: the configuration check, the
\* validation of "to", the locals, and the call of upsertGraphNode(toAddr).
\* Time is read here only: t is Date.now(), at or after the last reading.
\* from and to are not read again once fromAddr and toAddr are computed
Handle(r, t) ==
  LET q == reqs[r] IN
  /\ q.pc = "received"
  /\ clock' = t
  /\ IF ~redisConfigured
       THEN /\ reqs' = [reqs EXCEPT ![r] = IdleReq]
            /\ responses' = [responses EXCEPT !.unstored = @ + 1]
     ELSE IF InvalidTo(q.body.to)
       THEN /\ reqs' = [reqs EXCEPT ![r] = IdleReq]
            /\ responses' = [responses EXCEPT !.invalid = @ + 1]
     ELSE IF edgeTypeFromKind(q.body.attrs.kind, q.body.attrs.method)
               = TypeError
       THEN /\ reqs' = [reqs EXCEPT ![r] = IdleReq]
            /\ responses' = [responses EXCEPT !.error = @ + 1]
     ELSE /\ reqs' = [reqs EXCEPT ![r] =
               [q EXCEPT !.pc = "nodeGet",
                         !.body = [NoBody EXCEPT !.attrs = q.body.attrs],
                         !.fromAddr = FromAddrOf(q.body.from),
                         !.toAddr = ToLowerCase(q.body.to),
                         !.now = t,
                         !.edgeType = edgeTypeFromKind(q.body.attrs.kind,
                                                       q.body.attrs.method),
                         !.phase = "to"]]
          /\ UNCHANGED responses
  /\ UNCHANGED <<routes, ensCache, redisConfigured, store, calls>>

\* the address upsertGraphNode is working on
NodeAddr(q) == IF q.phase = "to" THEN q.toAddr ELSE q.fromAddr

\* upsertGraphNode: redis.get(key) returns, and the existing branch runs
NodeGet(r) ==
  LET q == reqs[r]
      a == NodeAddr(q) IN
  /\ q.pc = "nodeGet"
  /\ reqs' = [reqs EXCEPT ![r] =
       IF a \in DOMAIN nodes
         THEN [q EXCEPT !.pc = "nodeSet", !.node = UpdatedNode(nodes[a], q.now)]
         ELSE [q EXCEPT !.pc = "nodeLookup"]]
  /\ UNCHANGED <<routes, ensCache, redisConfigured, clock, store, calls, responses>>

\* a bug: a failed lookup is not caught, and the request is answered 500
NodeLookup_Rethrows(r, throws) ==
  LET q == reqs[r]
      a == NodeAddr(q) IN
  /\ q.pc = "nodeLookup"
  /\ IF throws
       THEN /\ reqs' = [reqs EXCEPT ![r] = IdleReq]
            /\ responses' = [responses EXCEPT !.error = @ + 1]
       ELSE /\ reqs' = [reqs EXCEPT ![r] =
                 [q EXCEPT !.pc = "nodeSet",
                           !.node = NewNode(a, LookupAddress(a), q.now)]]
            /\ UNCHANGED responses
  /\ UNCHANGED <<routes, ensCache, redisConfigured, clock, store, calls>>

\* upsertGraphNode: provider.lookupAddress returns or throws (ignored)
NodeLookup(r, throws) ==
  LET q == reqs[r]
      a == NodeAddr(q)
      ensName == IF throws THEN Null ELSE LookupAddress(a) IN
  /\ q.pc = "nodeLookup"
  /\ reqs' = [reqs EXCEPT ![r] =
       [q EXCEPT !.pc = "nodeSet", !.node = NewNode(a, ensName, q.now)]]
  /\ UNCHANGED <<routes, ensCache, redisConfigured, clock, store, calls, responses>>

\* a bug: an event from an address to itself upserts its node once
NodeSet_OncePerAddress(r) ==
  LET q == reqs[r] IN
  /\ q.pc = "nodeSet"
  /\ nodes' = Put(nodes, NodeAddr(q), q.node)
  /\ reqs' = [reqs EXCEPT ![r] =
       IF q.phase = "to" /\ q.fromAddr # Null /\ q.fromAddr # q.toAddr
         THEN [q EXCEPT !.pc = "nodeGet", !.phase = "from", !.node = NoNode]
         ELSE [q EXCEPT !.pc = "edgeGet", !.phase = "", !.node = NoNode]]
  /\ UNCHANGED <<routes, ensCache, redisConfigured, clock, edges, edgesOf,
                 neighbors, calls, responses>>

\* upsertGraphNode: redis.set(key, node); back in the handler, the next
\* await is the upsert of the "from" node or the read of the edge
NodeSet(r) ==
  LET q == reqs[r] IN
  /\ q.pc = "nodeSet"
  /\ nodes' = Put(nodes, NodeAddr(q), q.node)
  /\ reqs' = [reqs EXCEPT ![r] =
       IF q.phase = "to" /\ q.fromAddr # Null
         THEN [q EXCEPT !.pc = "nodeGet", !.phase = "from", !.node = NoNode]
         ELSE [q EXCEPT !.pc = "edgeGet", !.phase = "", !.node = NoNode]]
  /\ UNCHANGED <<routes, ensCache, redisConfigured, clock, edges, edgesOf, neighbors, calls,
                 responses>>

\* redis.get(edgeKey) returns, and edgeData is computed
EdgeGet(r) ==
  LET q == reqs[r]
      k == EdgeKeyOf(q) IN
  /\ q.pc = "edgeGet"
  /\ reqs' = [reqs EXCEPT ![r] = [q EXCEPT !.pc = "edgeSet", !.edgeData =
       IF k \in DOMAIN edges
         THEN UpdatedEdge(edges[k], q.now, q.edgeType, q.body.attrs.method)
         ELSE NewEdge(k[1], k[2], q.edgeType, q.body.attrs, q.now)]]
  /\ UNCHANGED <<routes, ensCache, redisConfigured, clock, store, calls, responses>>

\* a bug: the handler goes on to the indexes without writing the record
EdgeSet_NotWritten(r) ==
  /\ reqs[r].pc = "edgeSet"
  /\ reqs' = [reqs EXCEPT ![r] =
       [reqs[r] EXCEPT !.pc = "saddEdgesTo", !.edgeData = NoEdge]]
  /\ UNCHANGED <<routes, ensCache, redisConfigured, clock, store, calls,
                 responses>>

\* redis.set(edgeKey, edgeData)
EdgeSet(r) ==
  LET q == reqs[r] IN
  /\ q.pc = "edgeSet"
  /\ edges' = Put(edges, EdgeKeyOf(q), q.edgeData)
  /\ reqs' = [reqs EXCEPT ![r] =
       [q EXCEPT !.pc = "saddEdgesTo", !.edgeData = NoEdge]]
  /\ UNCHANGED <<routes, ensCache, redisConfigured, clock, nodes, edgesOf, neighbors, calls,
                 responses>>

\* res.json({ ok: true, stored: true })
RespondStored(r) ==
  /\ reqs' = [reqs EXCEPT ![r] = IdleReq]
  /\ responses' = [responses EXCEPT !.stored[EdgeKeyOf(reqs[r])] = @ + 1]

\* redis.sadd(graph:edges-of:to, key); without a from this is the last write
SaddEdgesTo(r) ==
  LET q == reqs[r] IN
  /\ q.pc = "saddEdgesTo"
  /\ edgesOf' = Sadd(edgesOf, q.toAddr, EdgeKeyOf(q))
  /\ IF q.fromAddr # Null
       THEN /\ reqs' = [reqs EXCEPT ![r] = [q EXCEPT !.pc = "saddEdgesFrom"]]
            /\ UNCHANGED responses
       ELSE RespondStored(r)
  /\ UNCHANGED <<routes, ensCache, redisConfigured, clock, nodes, edges, neighbors, calls>>

\* a bug: the edge is registered with its target only
SaddEdgesFrom_Skipped(r) ==
  /\ reqs[r].pc = "saddEdgesFrom"
  /\ reqs' = [reqs EXCEPT ![r] = [reqs[r] EXCEPT !.pc = "saddNeighborsFrom"]]
  /\ UNCHANGED <<routes, ensCache, redisConfigured, clock, store, calls,
                 responses>>

\* redis.sadd(graph:edges-of:from, key)
SaddEdgesFrom(r) ==
  LET q == reqs[r] IN
  /\ q.pc = "saddEdgesFrom"
  /\ edgesOf' = Sadd(edgesOf, q.fromAddr, EdgeKeyOf(q))
  /\ reqs' = [reqs EXCEPT ![r] = [q EXCEPT !.pc = "saddNeighborsFrom"]]
  /\ UNCHANGED <<routes, ensCache, redisConfigured, clock, nodes, edges, neighbors, calls,
                 responses>>

\* redis.sadd(graph:neighbors:from, toAddr)
SaddNeighborsFrom(r) ==
  LET q == reqs[r] IN
  /\ q.pc = "saddNeighborsFrom"
  /\ neighbors' = Sadd(neighbors, q.fromAddr, q.toAddr)
  /\ reqs' = [reqs EXCEPT ![r] = [q EXCEPT !.pc = "saddNeighborsTo"]]
  /\ UNCHANGED <<routes, ensCache, redisConfigured, clock, nodes, edges, edgesOf, calls,
                 responses>>

\* a bug: the second direction of the neighbor relation is not written
SaddNeighborsTo_Skipped(r) ==
  /\ reqs[r].pc = "saddNeighborsTo"
  /\ RespondStored(r)
  /\ UNCHANGED <<routes, ensCache, redisConfigured, clock, store, calls>>

\* redis.sadd(graph:neighbors:to, fromAddr), then the ok response
SaddNeighborsTo(r) ==
  LET q == reqs[r] IN
  /\ q.pc = "saddNeighborsTo"
  /\ neighbors' = Sadd(neighbors, q.toAddr, q.fromAddr)
  /\ RespondStored(r)
  /\ UNCHANGED <<routes, ensCache, redisConfigured, clock, nodes, edges, edgesOf, calls>>

\* the positions at which a store call is pending
StoreOps == {"nodeGet", "nodeSet", "edgeGet", "edgeSet", "saddEdgesTo",
             "saddEdgesFrom", "saddNeighborsFrom", "saddNeighborsTo"}

\* a bug: the catch block undoes the upsert of the "to" node
StoreFail_RollsBack(r) ==
  /\ reqs[r].pc \in StoreOps
  /\ responses.error < MaxFailures
  /\ reqs' = [reqs EXCEPT ![r] = IdleReq]
  /\ responses' = [responses EXCEPT !.error = @ + 1]
  /\ nodes' = [a \in DOMAIN nodes \ {reqs[r].toAddr} |-> nodes[a]]
  /\ UNCHANGED <<routes, ensCache, redisConfigured, clock, edges, edgesOf, neighbors, calls>>

\* a bug: the catch block sends no response
StoreFail_NoResponse(r) ==
  /\ reqs[r].pc \in StoreOps
  /\ responses.error < MaxFailures
  /\ reqs' = [reqs EXCEPT ![r] = [reqs[r] EXCEPT !.pc = "failed"]]
  /\ UNCHANGED <<routes, ensCache, redisConfigured, clock, store, calls,
                 responses>>

\* the pending store call throws: the catch block answers 500
StoreFail(r) ==
  /\ reqs[r].pc \in StoreOps
  /\ responses.error < MaxFailures
  /\ reqs' = [reqs EXCEPT ![r] = IdleReq]
  /\ responses' = [responses EXCEPT !.error = @ + 1]
  /\ UNCHANGED <<routes, ensCache, redisConfigured, clock, store, calls>>

\* one step of the request r after its first await
Await(r) ==
  \/ NodeGet(r)
  \/ \E throws \in BOOLEAN : NodeLookup(r, throws)
  \/ NodeSet(r)
  \/ EdgeGet(r)
  \/ EdgeSet(r)
  \/ SaddEdgesTo(r)
  \/ SaddEdgesFrom(r)
  \/ SaddNeighborsFrom(r)
  \/ SaddNeighborsTo(r)

\* one step of the request r after it was received
Step(r) ==
  \/ \E t \in clock..MaxTime : Handle(r, t)
  \/ Await(r)

Bodies == [from : RawFrom, to : RawTo, attrs : {TxAttrs, BareAttrs}]
RaceBodies == [from : RaceFrom, to : RaceTo, attrs : {TxAttrs}]

\* concurrent requests on a store that can fail
Next ==
  \/ \E r \in ReqIds, body \in RaceBodies : Receive(r, body, MaxCalls)
  \/ \E r \in ReqIds : Step(r)
  \/ \E r \in ReqIds : StoreFail(r)

Spec == Init /\ [][Next]_vars

\* the same, for two requests
NextPair ==
  \/ \E r \in ReqIds, body \in RaceBodies : Receive(r, body, MaxPairCalls)
  \/ \E r \in ReqIds : Step(r)
  \/ \E r \in ReqIds : StoreFail(r)

SpecPair == Init /\ [][NextPair]_vars

\* requests handled one at a time on a store that does not fail
NextSeq ==
  \/ \E body \in Bodies : Receive("r1", body, MaxSeqCalls)
  \/ Step("r1")

SpecSeq == Init /\ [][NextSeq]_vars

\* the bodies of the runs that vary the fields of the event
AttrBodies ==
  [from : {Undefined}, to : {"0xBb"},
   attrs : KindAttrs \cup FallbackAttrs \cup {TxAttrs, SignAttrs, HostAttrs}]
    \cup [from : {"0xAa"}, to : {"0xBb"}, attrs : {TxAttrs}]

\* requests handled one at a time, with every kind of event
NextAttrs ==
  \/ \E body \in AttrBodies : Receive("r1", body, MaxAttrCalls)
  \/ Step("r1")

SpecAttrs == Init /\ [][NextAttrs]_vars

\* the bodies of the runs that read the graph: the same addresses in
\* lowercase and in checksummed spelling, and a self-loop
RiskBodies ==
  {[from |-> "0xAa", to |-> "0xBb", attrs |-> TxAttrs],
   [from |-> "0xaa", to |-> "0xbb", attrs |-> SignAttrs],
   [from |-> "0xbb", to |-> "0xbb", attrs |-> TxAttrs],
   [from |-> Undefined, to |-> "0xbb", attrs |-> TxAttrs]}

\* no request is being handled and no answer is waiting for its client
AllIdle ==
  /\ reqs["r1"].pc = "idle" /\ rd.pc = "idle" /\ sync.pc = "idle"
  /\ out = NoOut /\ syncOut = NoSyncOut

\* the client has received the answer of a GET route
Answered ==
  /\ out # NoOut \/ syncOut # NoSyncOut
  /\ out' = NoOut
  /\ syncOut' = NoSyncOut
  /\ UNCHANGED <<graph, clock, ensCache, scamsniffer, cronSecret, rd, sync,
                 resolve>>

\* interactions, graph reads, risk lookups and blacklist syncs, handled one
\* at a time on a store that can fail; Date.now() gives the same reading
\* throughout
NextRisk ==
  \/ AllIdle /\ \E body \in RiskBodies : Receive("r1", body, MaxRiskCalls)
  \/ Handle("r1", clock)
  \/ Await("r1")
  \/ StoreFail("r1")
  \/ AllIdle /\ \E raw \in RawAddresses : GraphAddress(raw)
  \/ AllIdle /\ \E raw \in RawAddresses : GraphNeighbors(raw)
  \/ AllIdle /\ \E raw \in RawAddresses : RiskAddress(raw)
  \/ ReadStep
  \/ ReadFail
  \/ AllIdle /\ \E auth \in AuthHeaders : SyncStart(auth)
  \/ SyncStep
  \/ SyncFail
  \/ Answered

SpecRisk == InitRisk /\ [][NextRisk]_vars

\* overlapping resolve requests while time passes
NextResolve ==
  \/ \E q \in ResIds, name \in RawNames : ResolveStart(q, name)
  \/ \E q \in ResIds, address \in {"0xd8dA", "0xF00d", "0xb8c2", Null} :
       ResolveReturn(q, address)
  \/ \E q \in ResIds : ResolveThrows(q)
  \/ \E ms \in {1, DEFAULT_TTL_MS} : Elapse(ms)

SpecResolve == Init /\ [][NextResolve]_vars

\* calls on one cache, with time passing between them
NextCache ==
  \/ \E key \in Keys : get(key)
  \/ \E key \in Keys, value \in Values, ttl \in TtlArgs : set(key, value, ttl)
  \/ \E key \in Keys : has(key)
  \/ \E key \in Keys : delete(key)
  \/ clear
  \/ Advance

SpecCache == InitCache /\ [][NextCache]_vars

(* ============================ properties ============================== *)
RECURSIVE Sum(_, _)
\* the sum of f over the set S
Sum(f, S) ==
  IF S = {} THEN 0
  ELSE LET x == CHOOSE y \in S : TRUE IN f[x] + Sum(f, S \ {x})

\* the stored:true responses of the events that touch the address a
TouchingEvents(a) ==
  Sum(responses.stored, {k \in EdgeKeys : k[1] = a \/ k[2] = a})

\* the upsertGraphNode(a) calls of the events answered stored:true
Upserts(a) ==
  Sum(responses.stored, {k \in EdgeKeys : k[1] = a})
    + Sum(responses.stored, {k \in EdgeKeys : k[2] = a})

\* the number of responses sent
TotalResponses ==
  Sum(responses.stored, EdgeKeys) + responses.unstored + responses.invalid
    + responses.error

\* no handler is between the arrival of its request and its response
Quiescent == \A r \in ReqIds : reqs[r].pc = "idle"

\* no store call has failed so far
FailureFree == responses.error = 0

\* C1: after n sequential, failure-free recordInteraction calls on the same
\* (from,to) pair, sentinel included, the store holds one Edge record for
\* the pair, keyed and labelled by the pair, and its count is n; a pair
\* that was never recorded has no Edge record.
C1_EdgeCountIsNumberOfCalls ==
  Quiescent =>
    \A k \in EdgeKeys :
      IF responses.stored[k] = 0
        THEN k \notin DOMAIN edges
        ELSE /\ k \in DOMAIN edges
             /\ edges[k].from = k[1]
             /\ edges[k].to = k[2]
             /\ edges[k].count = responses.stored[k]

\* C1 witness: three calls on the sentinel pair of 0xbb were folded into
\* one edge of count 3
C1_Witness ==
  /\ Quiescent
  /\ responses.stored[<<"unknown", "0xbb">>] = 3
  /\ <<"unknown", "0xbb">> \in DOMAIN edges
  /\ edges[<<"unknown", "0xbb">>].count = 3

\* C2: concurrent recordInteraction calls on the same edge or node can
\* lose increments and nothing else: once all of them have answered
\* stored:true, without any error, the edge count (the node
\* interactionCount) is at least 1 and at most the number of calls (of
\* upserts), and the witness shows a state where it is strictly less.
C2_RaceOnlyLosesIncrements ==
  (Quiescent /\ FailureFree) =>
    /\ \A k \in EdgeKeys : responses.stored[k] > 0 =>
         /\ k \in DOMAIN edges
         /\ edges[k].count >= 1
         /\ edges[k].count <= responses.stored[k]
    /\ \A a \in Addrs : Upserts(a) > 0 =>
         /\ a \in DOMAIN nodes
         /\ nodes[a].interactionCount >= 1
         /\ nodes[a].interactionCount <= Upserts(a)

\* C2 witness: two calls on (0xaa, 0xbb) both answered stored:true, no
\* error was reported, and the edge and both nodes count 1 instead of 2
C2_Witness ==
  /\ Quiescent
  /\ FailureFree
  /\ responses.stored[<<"0xaa", "0xbb">>] = 2
  /\ edges[<<"0xaa", "0xbb">>].count = 1
  /\ nodes["0xaa"].interactionCount = 1
  /\ nodes["0xbb"].interactionCount = 1

\* C3: from one store state to the next the count and the lastSeen of a
\* stored Edge record never decrease, and the record stays.
C3_EdgeMonotone ==
  [][\A k \in DOMAIN edges :
       /\ k \in DOMAIN edges'
       /\ edges'[k].count >= edges[k].count
       /\ edges'[k].lastSeen >= edges[k].lastSeen]_vars

\* C4: run one at a time, every event answered stored:true adds exactly 1
\* to the interactionCount of each node it touches, a node that is both
\* its source and its destination included.
C4_OneIncrementPerEvent ==
  Quiescent =>
    \A a \in Addrs :
      IF TouchingEvents(a) = 0
        THEN a \notin DOMAIN nodes
        ELSE /\ a \in DOMAIN nodes
             /\ nodes[a].interactionCount = TouchingEvents(a)

\* C5: from one store state to the next the interactionCount of a stored
\* Node record never decreases, and the record stays.
C5_NodeCountMonotone ==
  [][\A a \in DOMAIN nodes :
       /\ a \in DOMAIN nodes'
       /\ nodes'[a].interactionCount >= nodes[a].interactionCount]_vars

\* C6: sequential upserts of an address: the first one creates the Node
\* with interactionCount 1 and firstSeen = lastSeen = its time t1; every
\* later one, at a time t2 >= t1, adds 1 to interactionCount (2 after the
\* second), sets lastSeen to t2 and leaves firstSeen at t1.
C6_UpsertTwice ==
  [][\A a \in Addrs :
       /\ (a \notin DOMAIN nodes /\ a \in DOMAIN nodes') =>
            /\ nodes'[a].interactionCount = 1
            /\ nodes'[a].firstSeen = reqs["r1"].now
            /\ nodes'[a].lastSeen = reqs["r1"].now
            /\ nodes'[a].address = a
       /\ (a \in DOMAIN nodes /\ nodes'[a] # nodes[a]) =>
            /\ nodes'[a].interactionCount = nodes[a].interactionCount + 1
            /\ nodes'[a].firstSeen = nodes[a].firstSeen
            /\ nodes'[a].lastSeen = reqs["r1"].now
            /\ nodes'[a].lastSeen >= nodes[a].lastSeen]_vars

\* C6 witness: 0xbb was upserted at time 1 and again at time 2
C6_Witness ==
  /\ "0xbb" \in DOMAIN nodes
  /\ nodes["0xbb"].interactionCount = 2
  /\ nodes["0xbb"].firstSeen = 1
  /\ nodes["0xbb"].lastSeen = 2

\* C7: once every recordInteraction has answered stored:true, the neighbor
\* sets are symmetric (B is in A's set iff A is in B's), and the two
\* addresses of every answered event with a valid from are in each other's
\* set.
C7_NeighborSymmetry ==
  /\ (Quiescent /\ FailureFree) =>
       \A a \in Addrs, b \in Addrs :
         (b \in neighbors[a]) <=> (a \in neighbors[b])
  /\ \A k \in EdgeKeys :
       (k[1] # "unknown" /\ responses.stored[k] > 0) =>
         (k[2] \in neighbors[k[1]] /\ k[1] \in neighbors[k[2]])

\* C7 witness: recordInteraction(0xaa, 0xbb) has answered stored:true and
\* each address is the other's neighbor
C7_Witness ==
  /\ Quiescent
  /\ FailureFree
  /\ responses.stored[<<"0xaa", "0xbb">>] > 0
  /\ neighbors["0xaa"] = {"0xbb"}
  /\ neighbors["0xbb"] = {"0xaa"}

\* C8: a request whose from is absent or no valid address runs with the
\* sentinel: its steps write no Node but the one of to, no Edge but
\* ("unknown", to), add that key to the edge index of to and to no other,
\* change no neighbor set, and when it answers the node, the edge and the
\* index entry are there.
C8_SentinelFrom ==
  [][LET q == reqs["r1"]
         p == reqs'["r1"]
         k == <<"unknown", q.toAddr>> IN
     /\ (/\ q.pc = "received"
         /\ p.pc = "nodeGet"
         /\ ~(IsString(q.body.from) /\ IsAddress(q.body.from)))
          => p.fromAddr = Null
     /\ (q.pc \notin {"idle", "received"} /\ q.fromAddr = Null) =>
          /\ neighbors' = neighbors
          /\ \A a \in DOMAIN nodes' :
               a = q.toAddr \/ (a \in DOMAIN nodes /\ nodes'[a] = nodes[a])
          /\ \A e \in DOMAIN edges' :
               e = k \/ (e \in DOMAIN edges /\ edges'[e] = edges[e])
          /\ \A a \in Addrs :
               edgesOf'[a] # edgesOf[a] =>
                 (a = q.toAddr /\ edgesOf'[a] = edgesOf[a] \cup {k})
          /\ p.pc = "idle" =>
               /\ responses' = [responses EXCEPT !.stored[k] = @ + 1]
               /\ q.toAddr \in DOMAIN nodes'
               /\ k \in DOMAIN edges'
               /\ edges'[k].from = "unknown"
               /\ k \in edgesOf'[q.toAddr]]_vars

\* C8 witness: one request without a valid from, to 0xbb, has answered:
\* the only node is 0xbb, the only edge ("unknown", 0xbb), indexed under
\* 0xbb alone, and there is no neighbor
C8_Witness ==
  /\ Quiescent
  /\ calls = 1
  /\ responses.stored[<<"unknown", "0xbb">>] = 1
  /\ DOMAIN nodes = {"0xbb"}
  /\ DOMAIN edges = {<<"unknown", "0xbb">>}
  /\ edgesOf = [a \in Addrs |->
                  IF a = "0xbb" THEN {<<"unknown", "0xbb">>} ELSE {}]
  /\ neighbors = [a \in Addrs |-> {}]

\* C9 as stated: a request whose to is missing, not a string or no valid
\* address is answered 400 and the handler ends without a store call, the
\* store unchanged.
C9_InvalidToRejected ==
  [][\A r \in ReqIds :
       (/\ reqs[r].pc = "received"
        /\ reqs'[r] # reqs[r]
        /\ (~IsString(reqs[r].body.to) \/ ~IsAddress(reqs[r].body.to)))
         => /\ responses' = [responses EXCEPT !.invalid = @ + 1]
            /\ reqs'[r] = IdleReq
            /\ store' = store]_vars

\* C9 amended: when the backing store is configured, a request whose to is
\* missing, not a string or no valid address is answered 400 and the
\* handler ends without a store call, the store unchanged; and only such a
\* request is answered 400.
C9_InvalidToRejectedWhenConfigured ==
  [][\A r \in ReqIds :
       (reqs[r].pc = "received" /\ reqs'[r] # reqs[r] /\ redisConfigured) =>
         IF ~IsString(reqs[r].body.to) \/ ~IsAddress(reqs[r].body.to)
           THEN /\ responses' = [responses EXCEPT !.invalid = @ + 1]
                /\ reqs'[r] = IdleReq
                /\ store' = store
           ELSE /\ responses' = responses
                /\ reqs'[r].pc = "nodeGet"]_vars

\* C9 witness: with the store configured and holding a node and an edge,
\* requests were answered 400
C9_Witness ==
  /\ redisConfigured
  /\ Quiescent
  /\ responses.invalid = 2
  /\ DOMAIN nodes = {"0xbb"}
  /\ DOMAIN edges = {<<"unknown", "0xbb">>}
  /\ nodes["0xbb"].interactionCount = 1

\* C10: a store call that fails ends its request with the one 500
\* response: the handler stops (no retry, no ok response, no further
\* store call) and the store is left as the completed sub-writes made it.
C10_StoreFailure ==
  [][responses'.error # responses.error =>
       /\ \E r \in ReqIds :
            /\ reqs[r].pc \in StoreOps
            /\ reqs' = [reqs EXCEPT ![r] = IdleReq]
       /\ responses' = [responses EXCEPT !.error = @ + 1]
       /\ store' = store
       /\ calls' = calls]_vars

\* C10 witness: the only request was answered 500 after it had upserted
\* the node of 0xbb: the node counts the interaction, no edge does
C10_Witness ==
  /\ Quiescent
  /\ calls = 1
  /\ responses.error = 1
  /\ TotalResponses = 1
  /\ "0xbb" \in DOMAIN nodes
  /\ nodes["0xbb"].interactionCount = 1
  /\ edges = <<>>

(* ======================= properties of the cache ====================== *)
\* the step is a call get(k) (a call that changes neither the Map nor the
\* record of the last call repeats the call before it)
GetStep(k) ==
  /\ last'.op = "get" /\ last'.key = k
  /\ clock' = clock
  /\ <<cacheStore, last>>' # <<cacheStore, last>>

\* the step is a call has(k)
HasStep(k) ==
  /\ last'.op = "has" /\ last'.key = k
  /\ clock' = clock
  /\ <<cacheStore, last>>' # <<cacheStore, last>>

\* the step is a call set(k, v, ttl)
SetStep(k) ==
  /\ last'.op = "set" /\ last'.key = k
  /\ clock' = clock
  /\ <<cacheStore, last>>' # <<cacheStore, last>>

\* the keys of the Map s
KeysOf(s) == {s[i].key : i \in 1..Len(s)}
\* the entries of the Map s
EntriesOf(s) == {s[i] : i \in 1..Len(s)}

\* C11: get(k) at time t returns the stored value if and only if an entry
\* for k is stored and t is strictly before the entry's expiresAt; a get at
\* a time equal to or after expiresAt returns absent
C11_GetVisibility ==
  [][\A k \in Keys : GetStep(k) =>
       IF MapHas(cacheStore, k) /\ clock < MapGet(cacheStore, k).expiresAt
         THEN last'.value = MapGet(cacheStore, k).value
         ELSE last'.value = Undefined]_vars

\* C12: a set issued when the number of stored entries equals maxEntries
\* removes exactly one entry before inserting, the one inserted earliest
\* among the entries still stored (the first of the Map); a set issued
\* below maxEntries removes no entry.  The other entries keep their order
C12_CapacityEviction ==
  [][\A k \in Keys : SetStep(k) =>
       LET kept == IF size = maxEntries THEN Tail(cacheStore)
                   ELSE cacheStore IN
       /\ size <= maxEntries
       /\ KeysOf(cacheStore') = KeysOf(kept) \cup {k}
       /\ SelectSeq(cacheStore', LAMBDA e : e.key # k)
            = SelectSeq(kept, LAMBDA e : e.key # k)]_vars

\* with maximum 2, first, second and third were inserted in this order:
\* first is absent, second and third are present
C12_Witness ==
  /\ maxEntries = 2
  /\ last.op = "set" /\ last.key = "third"
  /\ size = 2
  /\ cacheStore[1].key = "second" /\ cacheStore[2].key = "third"

\* C13: get and has on unexpired entries leave the Map as it is, entries
\* and order, so the entry evicted by the next set at capacity is the one
\* evicted had no read occurred: the first-inserted surviving key
C13_EvictionIgnoresReads ==
  [][\A k \in Keys :
       /\ ( /\ GetStep(k) \/ HasStep(k)
            /\ MapHas(cacheStore, k)
            /\ clock <= MapGet(cacheStore, k).expiresAt )
          => cacheStore' = cacheStore
       /\ (SetStep(k) /\ size = maxEntries)
          => KeysOf(cacheStore) \ KeysOf(cacheStore')
               = {cacheStore[1].key} \ {k}]_vars

\* a cache of two entries at capacity whose oldest entry was just read and
\* is still the first in line for eviction
C13_Witness ==
  /\ maxEntries = 2 /\ size = 2
  /\ last.op = "get" /\ last.value # Undefined
  /\ cacheStore[1].key = last.key

\* C14: for a cache constructed with maxEntries >= 1, after any sequence
\* of get, set, has, delete and clear calls the number of stored entries
\* (size, expired ones counted) never exceeds maxEntries
C14_BoundedSize == maxEntries >= 1 => size <= maxEntries

\* a cache of capacity 1 that is full after a set on another key than the
\* one it held, at the latest time
C14_Witness ==
  /\ maxEntries = 1 /\ size = 1
  /\ last.op = "set" /\ last.key = "second"
  /\ clock = MaxCacheTime

\* C15: get(k) immediately after set(k, v) (no time elapsed, positive TTL)
\* returns v; once the TTL of the entry has elapsed (the time is at or
\* after the set's time plus the TTL), get(k) returns absent, provided no
\* set(k, ...) happened in between
C15_RoundTrip ==
  [][\A k \in Keys : GetStep(k) =>
       /\ ( /\ last.op = "set" /\ last.key = k
            /\ MapHas(cacheStore, k)
            /\ Coalesce(last.ttl, ttlMs) > 0
            /\ MapGet(cacheStore, k).expiresAt
                 = clock + Coalesce(last.ttl, ttlMs) )
          => last'.value = last.value
       /\ ( /\ MapHas(cacheStore, k)
            /\ clock >= MapGet(cacheStore, k).expiresAt )
          => last'.value = Undefined]_vars

\* C16: set(k, v) without a ttl argument gives the entry expiresAt = now +
\* the default TTL of the cache (5 minutes, 300000 ms, for a cache that has
\* the default TTL of the constructor); set(k, v, ttl) gives expiresAt =
\* now + ttl for that entry only; every other entry that stays stored keeps
\* its expiresAt
C16_TtlSelection ==
  [][\A k \in Keys : SetStep(k) =>
       LET entry == MapGet(cacheStore', k) IN
       /\ MapHas(cacheStore', k)
       /\ last'.ttl = NoArg => entry.expiresAt = clock + ttlMs
       /\ (last'.ttl = NoArg /\ ttlMs = DEFAULT_TTL_MS)
            => entry.expiresAt = clock + 300000
       /\ last'.ttl # NoArg => entry.expiresAt = clock + last'.ttl
       /\ \A e \in EntriesOf(cacheStore') :
            e.key # k => e \in EntriesOf(cacheStore)]_vars

\* the cache constructed without arguments holds an entry set without a
\* ttl at time 1 and, after it, an entry just set with the ttl 1
C16_Witness ==
  /\ ttlMs = 300000 /\ maxEntries = 10000
  /\ size = 2
  /\ cacheStore[1].expiresAt = 1 + 300000
  /\ last.op = "set" /\ last.ttl = 1 /\ last.key = cacheStore[2].key
  /\ cacheStore[2].expiresAt = clock + 1
  /\ clock > 1

\* C17: a get(k) on an entry whose expiry has passed removes exactly that
\* entry and changes no other entry; the passage of time alone changes
\* nothing in the Map; an entry leaves the Map only by a get or has on it,
\* a delete of it, a clear, or the eviction of a set at capacity
C17_LazyExpiry ==
  [][/\ \A k \in Keys :
          ( /\ GetStep(k)
            /\ MapHas(cacheStore, k)
            /\ clock > MapGet(cacheStore, k).expiresAt )
          => /\ ~MapHas(cacheStore', k)
             /\ cacheStore' = SelectSeq(cacheStore, LAMBDA e : e.key # k)
     /\ clock' # clock => cacheStore' = cacheStore
     /\ \A k \in KeysOf(cacheStore) \ KeysOf(cacheStore') :
          \/ last'.op \in {"get", "has", "delete"} /\ last'.key = k
          \/ last'.op = "clear"
          \/ /\ last'.op = "set"
             /\ size = maxEntries
             /\ k = cacheStore[1].key]_vars

\* an expired entry was removed by the get on it, while another entry that
\* expired at the same time, and was not read, is still stored
C17_Witness ==
  /\ last.op = "get" /\ last.value = Undefined
  /\ ~MapHas(cacheStore, last.key)
  /\ size = 1
  /\ clock > cacheStore[1].expiresAt

(* =================== properties of the event fields =================== *)
\* the step in which the handler r validates its body and classifies it
HandleStep(r) == reqs[r].pc = "received" /\ reqs'[r].pc # "received"

\* the classification as claimed: the method counts only without a kind
ClaimedEdgeType(kind, method) ==
  CASE kind = "tx" -> "sent_tx"
    [] kind = "sign" -> "signed_for"
    [] kind = "connect" -> "connected"
    [] kind = "chain" -> "chain_switch"
    [] /\ kind = Undefined /\ IsString(method)
       /\ StartsWith(method, "eth_sendTransaction") -> "sent_tx"
    [] /\ kind = Undefined /\ IsString(method)
       /\ StartsWith(method, "eth_sign") -> "signed_for"
    [] OTHER -> "interaction"

\* the classification with the method counting for every kind that is not
\* one of the four, and failing on a method that is not a string
AmendedEdgeType(kind, method) ==
  CASE kind = "tx" -> "sent_tx"
    [] kind = "sign" -> "signed_for"
    [] kind = "connect" -> "connected"
    [] kind = "chain" -> "chain_switch"
    [] OTHER ->
         CASE method \in {Undefined, ""} -> "interaction"
           [] method = NotAString -> TypeError
           [] StartsWith(method, "eth_sendTransaction") -> "sent_tx"
           [] StartsWith(method, "eth_sign") -> "signed_for"
           [] OTHER -> "interaction"

EdgeSetStep(r) == reqs[r].pc = "edgeSet" /\ reqs'[r].pc # "edgeSet"

\* C19: for an existing Edge, each later event on the same (from, to)
\* overwrites method, kind and hostname with the value of the event when
\* the event supplies one, and retains the previous value when the event
\* omits it
C19_LastSuppliedValue ==
  [][\A r \in ReqIds :
       LET k == EdgeKeyOf(reqs[r])
           a == reqs[r].body.attrs IN
       (EdgeSetStep(r) /\ k \in DOMAIN edges) =>
         /\ edges'[k].method = OrElse(a.method, edges[k].method)
         /\ edges'[k].kind = OrElse(a.kind, edges[k].kind)
         /\ edges'[k].hostname = OrElse(a.hostname, edges[k].hostname)]_vars

\* C20: chainId, value and hasData are set from the event that creates the
\* edge, each present iff that event carried a non-null value, and are
\* left unchanged by every later event on the same (from, to), whatever
\* values that event carries
C20_OptionalFieldsFromCreation ==
  [][\A r \in ReqIds :
       LET k == EdgeKeyOf(reqs[r])
           a == reqs[r].body.attrs
           Carried(x) == IF x \in {Undefined, Null} THEN Undefined ELSE x IN
       EdgeSetStep(r) =>
         IF k \in DOMAIN edges
           THEN /\ edges'[k].chainId = edges[k].chainId
                /\ edges'[k].value = edges[k].value
                /\ edges'[k].hasData = edges[k].hasData
           ELSE /\ edges'[k].chainId = Carried(a.chainId)
                /\ edges'[k].value = Carried(a.value)
                /\ edges'[k].hasData = Carried(a.hasData)]_vars

\* the edge created by an event with chainId 1 and value 1000 was written
\* a second time by an event with chainId 5 and no value
C20_Witness ==
  LET q == reqs["r1"] IN
  /\ q.pc = "saddEdgesTo"
  /\ EdgeKeyOf(q) \in DOMAIN edges
  /\ edges[EdgeKeyOf(q)].count = 2
  /\ edges[EdgeKeyOf(q)].chainId = "1"
  /\ edges[EdgeKeyOf(q)].value = "1000"
  /\ q.body.attrs.chainId = "5"
  /\ q.body.attrs.value = Undefined

(* ------------------------- claims on the reads ------------------------- *)
\* the step in which a GET handler of the route answers 200 after its last
\* store call
Responds(route) ==
  /\ rd.pc # "idle"
  /\ rd.route = route
  /\ rd'.pc = "idle"
  /\ out'.status = 200

\* a step of a GET handler: it starts, goes on, or answers
ReadActs == rd' # rd \/ (out' # out /\ out' # NoOut)

\* C21: the risk summary answered for address A has totalNeighborCount = the
\* size of A's neighbor set, flaggedNeighborCount = the number of those
\* neighbors in the blacklist (so at most totalNeighborCount), and flagged =
\* (A is in the blacklist); no step of the read changes the store.
C21_RiskSummary ==
  [][/\ Responds("address") =>
          LET A == rd.address
              summary == out'.riskSummary
          IN /\ summary.totalNeighborCount = Cardinality(neighbors[A])
             /\ summary.flaggedNeighborCount =
                  Cardinality(neighbors[A] \cap blacklist)
             /\ summary.flaggedNeighborCount <= summary.totalNeighborCount
             /\ summary.flagged = (A \in blacklist)
     /\ (rd.route = "address" \/ rd'.route = "address") /\ ReadActs =>
          UNCHANGED <<store, scamsniffer>>]_vars

\* 0xbb has two neighbors, itself included, and is the only flagged address
C21_Witness ==
  /\ out.route = "address"
  /\ out.status = 200
  /\ out.node.address = "0xbb"
  /\ out.riskSummary = [flagged |-> TRUE, flaggedNeighborCount |-> 1,
                        totalNeighborCount |-> 2]
  /\ blacklist = {"0xbb"}

\* C22: the edges answered for address A are exactly the Edge records that
\* exist for the keys of A's edge-membership index: a key of the index without
\* a record is skipped without an error, and no other edge is answered.
C22_EdgesOfIndex ==
  [][/\ Responds("address") \/ Responds("neighbors") =>
          out'.edges = {edges[ek] : ek \in edgesOf[rd.address] \cap DOMAIN edges}
     /\ \A ek \in EdgeKeys :
          rd.pc = "edgeGet" /\ ek \in rd.edgeKeys /\ ek \notin rd'.edgeKeys
          /\ ek \notin DOMAIN edges /\ rd'.pc # "idle" =>
            rd'.edges = rd.edges]_vars

\* the index of 0xbb holds two keys, one of them without a record, and the
\* answer holds the one record
C22_Witness ==
  /\ out.route \in {"address", "neighbors"}
  /\ out.status = 200
  /\ out.raw = " 0xbb "
  /\ Cardinality(edgesOf["0xbb"]) = 2
  /\ Cardinality(edgesOf["0xbb"] \ DOMAIN edges) = 1
  /\ Cardinality(out.edges) = 1

\* C23: the address read of a well-formed address without a Node record
\* goes on with, and answers, the default record (label null, firstSeen 0,
\* lastSeen 0, interactionCount 0) and no error, and the read creates no
\* Node record and changes nothing else in the store.
C23_DefaultNode ==
  [][/\ rd.pc = "nodeGet" /\ rd'.pc # "idle"
          /\ rd.address \notin DOMAIN nodes =>
          /\ rd'.pc = "edgesOf"
          /\ rd'.node.address = rd.address
          /\ rd'.node.label = Null
          /\ rd'.node.firstSeen = 0
          /\ rd'.node.lastSeen = 0
          /\ rd'.node.interactionCount = 0
     /\ Responds("address") /\ rd.address \notin DOMAIN nodes =>
          /\ out'.node.address = rd.address
          /\ out'.node.label = Null
          /\ out'.node.firstSeen = 0
          /\ out'.node.lastSeen = 0
          /\ out'.node.interactionCount = 0
     /\ (rd.route = "address" \/ rd'.route = "address") /\ ReadActs =>
          /\ DOMAIN nodes' = DOMAIN nodes
          /\ UNCHANGED <<store, scamsniffer>>]_vars

\* 0xaa was never seen, although it is well-formed and other nodes exist
C23_Witness ==
  /\ out.route = "address"
  /\ out.status = 200
  /\ out.raw = "0xAa"
  /\ out.node.address = "0xaa"
  /\ out.node.interactionCount = 0
  /\ "0xaa" \notin DOMAIN nodes
  /\ "0xbb" \in DOMAIN nodes

\* C25: no graph entity is removed by recordInteraction or by a read: the
\* Node records, the Edge records, every neighbor set and every
\* edge-membership index only grow.
C25_GraphOnlyGrows ==
  [][/\ DOMAIN nodes \subseteq DOMAIN nodes'
     /\ DOMAIN edges \subseteq DOMAIN edges'
     /\ \A a \in Addrs : /\ neighbors[a] \subseteq neighbors'[a]
                         /\ edgesOf[a] \subseteq edgesOf'[a]]_vars

\* a read has answered the edges of 0xbb, whose index holds a key without a
\* record, after two interactions were stored
C25_Witness ==
  /\ out.route = "neighbors"
  /\ out.status = 200
  /\ out.address = "0xbb"
  /\ edgesOf["0xbb"] \ DOMAIN edges # {}
  /\ Cardinality(DOMAIN edges) = 2
  /\ DOMAIN nodes = Addrs

\* C24: the name-resolution collaborator is asked for the label of an
\* address only while the address has no Node record, and an upsert of an
\* address that has a record writes the label back unchanged; a lookup that
\* fails is swallowed: the request goes on to create the Node with label null
\* and interactionCount 1 and is not answered with an error.
C24_LabelOnCreationOnly ==
  [][LET q == reqs["r1"]
         a == NodeAddr(q)
     IN /\ reqs'["r1"].pc = "nodeLookup" => NodeAddr(reqs'["r1"]) \notin DOMAIN nodes
        /\ q.pc = "nodeLookup" /\ reqs' # reqs =>
             /\ a \notin DOMAIN nodes
             /\ reqs'["r1"].pc = "nodeSet"
             /\ reqs'["r1"].node.interactionCount = 1
             /\ reqs'["r1"].node.label \in {Null, LookupAddress(a)}
             /\ responses' = responses
        /\ q.pc = "nodeSet" /\ reqs' # reqs =>
             IF a \in DOMAIN nodes
               THEN nodes'[a].label = nodes[a].label
               ELSE /\ nodes'[a].interactionCount = 1
                    /\ nodes'[a].label = q.node.label]_vars

\* the lookup of 0xaa failed when its Node was created, and the next upsert
\* of 0xaa, with the collaborator knowing a name for it, left the label null;
\* both requests were answered as stored
C24_Witness ==
  /\ "0xaa" \in DOMAIN nodes
  /\ nodes["0xaa"].label = Null
  /\ LookupAddress("0xaa") # Null
  /\ nodes["0xaa"].interactionCount = 2
  /\ responses.error = 0
  /\ Sum(responses.stored, DOMAIN responses.stored) = 2
  /\ Quiescent

\* the lowercase form of each well-formed :address parameter
Canonical ==
  [raw \in {"0xAa", "0xbb", " 0xbb "} |->
     IF raw = "0xAa" THEN "0xaa" ELSE "0xbb"]

\* C26: interactions that spell an address in different letter case fold
\* into one Node record, one Edge record and the same neighbor-set members,
\* all keyed by the lowercase form: every key and member of the store is
\* lowercase, and with no failure each record counts all the events of its
\* address or pair, whatever their spelling; a read given a mixed-case
\* address works on, and answers, the records of the lowercase form.
C26_LowercaseKeys ==
  [][/\ DOMAIN nodes' \subseteq Addrs
     /\ DOMAIN edges' \subseteq EdgeKeys
     /\ \A a \in DOMAIN nodes' : nodes'[a].address = a
     /\ \A k \in DOMAIN edges' : <<edges'[k].from, edges'[k].to>> = k
     /\ \A a \in Addrs : /\ neighbors'[a] \subseteq Addrs
                         /\ edgesOf'[a] \subseteq EdgeKeys
     /\ Quiescent' /\ FailureFree' =>
          /\ \A k \in EdgeKeys :
               IF responses'.stored[k] = 0 THEN k \notin DOMAIN edges'
               ELSE edges'[k].count = responses'.stored[k]
          /\ \A a \in DOMAIN nodes' : nodes'[a].interactionCount = Upserts(a)'
     /\ rd'.pc # "idle" => rd'.address = Canonical[rd'.raw]
     /\ Responds("address") =>
          /\ out'.node.address = Canonical[rd.raw]
          /\ out'.node.interactionCount =
               IF Canonical[rd.raw] \in DOMAIN nodes
                 THEN nodes[Canonical[rd.raw]].interactionCount ELSE 0
          /\ out'.edges =
               {edges[k] : k \in edgesOf[Canonical[rd.raw]] \cap DOMAIN edges}
     /\ Responds("neighbors") => out'.address = Canonical[rd.raw]]_vars

\* the edge 0xaa -> 0xbb was created by the event spelled 0xAa, 0xBb (kind
\* tx) and updated by the event spelled 0xaa, 0xbb (a signing method); the
\* read of 0xAa answers the node 0xaa with both events counted
C26_Witness ==
  /\ <<"0xaa", "0xbb">> \in DOMAIN edges
  /\ edges[<<"0xaa", "0xbb">>].kind = "tx"
  /\ edges[<<"0xaa", "0xbb">>].method = "eth_signTypedData_v4"
  /\ edges[<<"0xaa", "0xbb">>].count = 2
  /\ DOMAIN edges = {<<"0xaa", "0xbb">>}
  /\ neighbors["0xaa"] = {"0xbb"}
  /\ out.route = "address"
  /\ out.raw = "0xAa"
  /\ out.status = 200
  /\ out.node.address = "0xaa"
  /\ out.node.interactionCount = 2

(* ------------------ claims on the unconfigured store ------------------- *)
\* no handler waits on a store call or on the fetch, and the store is as it
\* was when the server started
StoreUntouched ==
  /\ rd.pc = "idle"
  /\ sync.pc = "idle"
  /\ \A r \in ReqIds : reqs[r].pc \in {"idle", "received"}
  /\ EmptyStore \/ LeftoverStore

\* every interaction so far was answered { ok: true, stored: false }
OnlyUnstored ==
  /\ \A k \in EdgeKeys : responses.stored[k] = 0
  /\ responses.invalid = 0
  /\ responses.error = 0

\* the answers of the three GET routes without a store
UnstoredAnswer ==
  /\ out.status = 200
  /\ out.route = "address" =>
       /\ out.node = emptyNode(Canonical[out.raw])
       /\ out.edges = {}
       /\ out.riskSummary = [flagged |-> FALSE, flaggedNeighborCount |-> 0,
                             totalNeighborCount |-> 0]
  /\ out.route = "neighbors" =>
       /\ out.address = Canonical[out.raw]
       /\ out.neighbors = {}
       /\ out.edges = {}
  /\ out.route = "risk" =>
       /\ out.flagged = FALSE
       /\ out.lastUpdated = <<>>

\* the request carried the configured secret
Authorized(auth) ==
  /\ cronSecret = "test-cron-secret"
  /\ auth = "Bearer test-cron-secret"

\* C27 as stated: without a store no route touches the store, every
\* interaction is answered ok with stored:false, every address read answers
\* the empty node, no edges and an all-zero unflagged summary, every
\* neighbors read empty lists, every risk lookup {flagged:false,
\* lastUpdated:null}, and every blacklist sync 503.
C27_UnconfiguredAsClaimed ==
  ~redisConfigured =>
    /\ StoreUntouched
    /\ OnlyUnstored
    /\ out # NoOut => out.raw \in DOMAIN Canonical /\ UnstoredAnswer
    /\ syncOut # NoSyncOut => syncOut.status = 503

\* C27, amended: without a store no route touches the store; every
\* interaction is answered ok with stored:false; a GET with a well-formed
\* address answers as claimed and one with a malformed address 400; an
\* authorized blacklist sync answers 503 and an unauthorized one 401.
C27_UnconfiguredValidRequests ==
  ~redisConfigured =>
    /\ StoreUntouched
    /\ OnlyUnstored
    /\ out # NoOut =>
         IF out.raw \in DOMAIN Canonical THEN UnstoredAnswer
         ELSE out.status = 400
    /\ syncOut # NoSyncOut =>
         syncOut.status = IF Authorized(syncOut.auth) THEN 503 ELSE 401

\* without a store, after two interactions answered stored:false, the
\* neighbors of " 0xbb " are answered as empty lists
C27_Witness ==
  /\ ~redisConfigured
  /\ responses.unstored = 2
  /\ out.route = "neighbors"
  /\ out.raw = " 0xbb "
  /\ out.status = 200
  /\ out.address = "0xbb"
  /\ out.neighbors = {}

\* C28: a blacklist sync whose Authorization header is not "Bearer " followed
\* by CRON_SECRET, or made while CRON_SECRET is unset, is answered 401, with
\* or without a store configured (never 503), and its handler never gets to
\* the fetch or to a store call.
C28_UnauthorizedSync ==
  LET Unauthorized(auth) ==
        \/ cronSecret \notin {"test-cron-secret"}
        \/ auth # "Bearer test-cron-secret"
  IN /\ syncOut # NoSyncOut /\ Unauthorized(syncOut.auth) =>
          syncOut.status = 401
     /\ sync.pc # "idle" => ~Unauthorized(sync.auth)
     /\ cronSecret = Undefined =>
          /\ scamsniffer = <<{}, Null, Null>>
          /\ syncOut.status \in {0, 401}

\* CRON_SECRET is unset and no store is configured: the header built from
\* the unset secret is answered 401, not 503
C28_Witness ==
  /\ cronSecret = Undefined
  /\ ~redisConfigured
  /\ syncOut.auth = "Bearer <undefined>"
  /\ syncOut.status = 401

(* --------------------- claims on the resolve route --------------------- *)
\* the answers of the provider for the name n whose cache entry, if it is
\* still the one in the cache, has not expired: an entry expires once
\* Date.now() is past the five minutes that follow its set
Fresh(n) ==
  {i \in DOMAIN obtained :
     obtained[i].name = n /\ clock <= obtained[i].at + 5 * 60 * 1000}

\* the last answer of the provider among those of I
Latest(I) == CHOOSE i \in I : \A j \in I : j <= i

\* a step in which a resolve request arrives
ResolveArrives == resolveCalls' = resolveCalls + 1

\* the arriving request for a valid name is answered without an await
AnsweredFromCache ==
  /\ ResolveArrives
  /\ rs' = rs
  /\ resOut'.status # 400

\* the handler q of the arriving request goes on to provider.resolveName
CallsProvider(q) ==
  /\ ResolveArrives
  /\ rs[q].pc = "idle"
  /\ rs'[q].pc = "resolveName"

\* C29 as stated: once a request for the name n has obtained an address
\* from the provider, every later request for n that arrives within the five
\* minutes of the cache entry is answered that same address, and does not
\* call provider.resolveName.
C29_SameAddressForFiveMinutes ==
  [][/\ \A q \in ResIds :
          CallsProvider(q) => Fresh(rs'[q].normalized) = {}
     /\ AnsweredFromCache =>
          /\ resOut'.status = 200
          /\ ~resOut'.called
          /\ Fresh(resOut'.name) # {}
          /\ \A i \in Fresh(resOut'.name) :
               resOut'.address = obtained[i].address]_vars

\* C29, amended: a request for n that arrives within the five minutes that
\* follow the last set of the entry of n is answered from the cache, without
\* a call of provider.resolveName, the address the provider returned last
\* among the requests for n that obtained one.
C29_LastAddressForFiveMinutes ==
  [][/\ \A q \in ResIds :
          CallsProvider(q) => Fresh(rs'[q].normalized) = {}
     /\ AnsweredFromCache =>
          /\ resOut'.status = 200
          /\ ~resOut'.called
          /\ Fresh(resOut'.name) # {}
          /\ resOut'.address =
               obtained[Latest(Fresh(resOut'.name))].address]_vars

\* vitalik.eth was cached at instant 1 and is answered from the cache at the
\* last millisecond of its five minutes
C29_Witness ==
  /\ Len(obtained) = 1
  /\ obtained[1].name = "vitalik.eth"
  /\ obtained[1].at = 1
  /\ clock = 1 + 5 * 60 * 1000
  /\ resOut.status = 200
  /\ resOut.name = "vitalik.eth"
  /\ resOut.address = obtained[1].address
  /\ ~resOut.called
  /\ resolveCalls = 2

\* the entries of the cache under the key of the name n
EntriesFor(n) ==
  {i \in 1..Len(cacheStore) : cacheStore[i].key = "resolve:" \o n}

\* C30: whatever the interleaving of overlapping resolve requests, the cache
\* never holds two entries for one key, the value under resolve:<name> is
\* always an address the provider returned for that name, and once a request
\* for the name has obtained an address the cache holds exactly one entry
\* for its key (until the entry expires), all handlers done or not.
C30_OneEntryPerName ==
  /\ \A n \in Names :
       /\ Cardinality(EntriesFor(n)) <= 1
       /\ \A i \in EntriesFor(n) :
            \E j \in DOMAIN obtained :
              /\ obtained[j].name = n
              /\ obtained[j].address = cacheStore[i].value
       /\ Fresh(n) # {} =>
            /\ Cardinality(EntriesFor(n)) = 1
            /\ \A i \in EntriesFor(n) :
                 cacheStore[i].value \in
                   {obtained[j].address : j \in Fresh(n)}
  /\ \A i \in 1..Len(cacheStore) : \E n \in Names : i \in EntriesFor(n)

\* two overlapping requests for vitalik.eth both called the provider, which
\* returned two addresses; both are done, and the cache holds one entry for
\* the name, with the address returned last, next to the entry of nick.eth
C30_Witness ==
  /\ \A q \in ResIds : rs[q].pc = "idle"
  /\ Len(obtained) = 3
  /\ obtained[1].name = "vitalik.eth"
  /\ obtained[2].name = "vitalik.eth"
  /\ obtained[3].name = "nick.eth"
  /\ obtained[1].address # obtained[2].address
  /\ obtained[1].at = obtained[2].at
  /\ Len(cacheStore) = 2
  /\ \E i \in EntriesFor("vitalik.eth") :
       cacheStore[i].value = obtained[2].address

(* ------------------- further claims on the cache ----------------------- *)
\* C31: has(k) returns true exactly when an entry for k is stored and get(k)
\* at the same instant would serve it (Date.now() is not past its
\* expiresAt), and false for a missing or expired key; like get, has on an
\* expired entry removes that entry, and it changes nothing else.
C31_HasFollowsGet ==
  [][\A k \in Keys : HasStep(k) =>
       LET stored == MapHas(cacheStore, k)
           served == stored /\ ~(clock > MapGet(cacheStore, k).expiresAt)
       IN /\ last'.value = IF served THEN "true" ELSE "false"
          /\ cacheStore' = IF stored /\ ~served
                             THEN SelectSeq(cacheStore, LAMBDA e : e.key # k)
                             ELSE cacheStore]_vars

\* has on an expired entry answered false and removed it, while another
\* entry that expired at the same time is still stored
C31_Witness ==
  /\ last.op = "has" /\ last.value = "false"
  /\ ~MapHas(cacheStore, last.key)
  /\ size = 1
  /\ clock > cacheStore[1].expiresAt

(* -------------------- further claims on the graph ---------------------- *)
\* C32: every write of an Edge, the first and each later one on the same
\* (from, to), sets type to edgeTypeFromKind of the kind and method of the
\* event being recorded, so the type is always that of the most recent
\* recorded event, the fallback interaction after an earlier sent_tx
\* included.
C32_TypeOfLatestEvent ==
  [][\A r \in ReqIds :
       LET k == EdgeKeyOf(reqs[r])
           a == reqs[r].body.attrs IN
       EdgeSetStep(r) =>
         /\ edges'[k].type = edgeTypeFromKind(a.kind, a.method)
         /\ (a.kind \in {Undefined, "other"} /\ a.method = Undefined) =>
              edges'[k].type = "interaction"]_vars

\* the edge was created by a tx event, classified sent_tx, and written again
\* by an event without kind and method: its type is interaction, while kind
\* and method are still those of the first event
C32_Witness ==
  /\ <<"unknown", "0xbb">> \in DOMAIN edges
  /\ edges[<<"unknown", "0xbb">>].count = 2
  /\ edges[<<"unknown", "0xbb">>].kind = "tx"
  /\ edges[<<"unknown", "0xbb">>].method = "eth_sendTransaction"
  /\ edges[<<"unknown", "0xbb">>].type = "interaction"

\* the bodies of the runs that record both directions of one pair
TwoWayBodies ==
  {[from |-> "0xAa", to |-> "0xBb", attrs |-> TxAttrs],
   [from |-> "0xbb", to |-> "0xaa", attrs |-> SignAttrs]}

\* requests handled one at a time, in both directions of one pair
NextTwoWay ==
  \/ \E body \in TwoWayBodies : Receive("r1", body, MaxSeqCalls)
  \/ Step("r1")

SpecTwoWay == Init /\ [][NextTwoWay]_vars

\* C33: edges are keyed by the ordered pair: the events A -> B and B -> A
\* keep two Edge records, each counting the events of its own direction
\* only; both keys are in the edge-membership index of A and in that of B;
\* and the events of both directions leave one symmetric neighbor relation,
\* each neighbor set holding exactly the other address.
C33_OrderedPairs ==
  LET A == "0xaa"
      B == "0xbb"
      recorded(k) == responses.stored[k] > 0 IN
  Quiescent =>
    /\ \A k \in {<<A, B>>, <<B, A>>} :
         IF recorded(k)
           THEN /\ k \in DOMAIN edges
                /\ edges[k].from = k[1] /\ edges[k].to = k[2]
                /\ edges[k].count = responses.stored[k]
                /\ k \in edgesOf[A] /\ k \in edgesOf[B]
           ELSE /\ k \notin DOMAIN edges
                /\ k \notin edgesOf[A] /\ k \notin edgesOf[B]
    /\ recorded(<<A, B>>) \/ recorded(<<B, A>>) =>
         neighbors[A] = {B} /\ neighbors[B] = {A}

\* two events A -> B and one event B -> A have been recorded
C33_Witness ==
  /\ Quiescent
  /\ DOMAIN edges = {<<"0xaa", "0xbb">>, <<"0xbb", "0xaa">>}
  /\ edges[<<"0xaa", "0xbb">>].count = 2
  /\ edges[<<"0xbb", "0xaa">>].count = 1
  /\ edgesOf["0xaa"] = edgesOf["0xbb"]
  /\ Cardinality(edgesOf["0xaa"]) = 2
  /\ neighbors["0xaa"] = {"0xbb"} /\ neighbors["0xbb"] = {"0xaa"}

(* -------------------- further claims on the cache ---------------------- *)
\* the keys of the Map s in eviction order, oldest first
KeySeq(s) == [i \in 1..Len(s) |-> s[i].key]

\* C34: set on a key that is already stored evicts the oldest-inserted
\* entry first when the cache is at capacity: a different key, which leaves
\* maxEntries - 1 entries with the key at its old place among the rest, or
\* the key itself, which is then inserted again as the newest. Below
\* capacity the order of the keys does not change. In every case the
\* entry of the key holds the new value and the new expiresAt.
C34_OverwriteKeepsPosition ==
  [][\A k \in Keys : SetStep(k) /\ MapHas(cacheStore, k) =>
       LET atCapacity == size >= maxEntries
           oldest == cacheStore[1].key
           rest == KeySeq(Tail(cacheStore)) IN
       /\ atCapacity /\ oldest # k =>
            /\ KeySeq(cacheStore') = rest
            /\ Len(cacheStore') = maxEntries - 1
       /\ atCapacity /\ oldest = k =>
            /\ KeySeq(cacheStore') = Append(rest, k)
            /\ Len(cacheStore') = maxEntries
       /\ ~atCapacity => KeySeq(cacheStore') = KeySeq(cacheStore)
       /\ MapGet(cacheStore', k).value = last'.value
       /\ MapGet(cacheStore', k).expiresAt
            = clock + (IF last'.ttl = NoArg THEN ttlMs ELSE last'.ttl)]_vars

\* a cache of two entries at capacity, on which the stored key second was
\* set again: first was evicted and one entry is left
C34_Witness ==
  /\ maxEntries = 2
  /\ last.op = "set" /\ last.key = "second" /\ last.value = "v2"
  /\ size = 1
  /\ cacheStore[1] = [key |-> "second", value |-> "v2",
                      expiresAt |-> clock + 1]
  /\ last.ttl = 1

(* -------------------- further claims on the graph ---------------------- *)
\* C35: in every state of the store, between the writes of requests in
\* flight and after a store failure as well, every member of a neighbor
\* set has a Node record, and every key in the edge-membership index of an
\* address has an Edge record whose from or to is that address.
C35_ReferentialIntegrity ==
  \A a \in Addrs :
    /\ \A n \in neighbors[a] : n \in DOMAIN nodes
    /\ \A k \in edgesOf[a] :
         /\ k \in DOMAIN edges
         /\ edges[k].from = a \/ edges[k].to = a

\* one request failed, another is between its two neighbor writes: 0xbb is
\* a neighbor of 0xaa and 0xaa not yet one of 0xbb
C35_Witness ==
  /\ responses.error = 1
  /\ \E r \in ReqIds : reqs[r].pc = "saddNeighborsTo"
  /\ neighbors["0xaa"] = {"0xbb"} /\ neighbors["0xbb"] = {}
  /\ <<"0xaa", "0xbb">> \in edgesOf["0xaa"]

\* C36: in every state of the store, also with overlapping requests that
\* read different times, every Node and every Edge record has
\* firstSeen <= lastSeen, and the firstSeen of a record that exists does
\* not change.
C36_SeenOrder ==
  [][/\ \A a \in DOMAIN nodes' : nodes'[a].firstSeen <= nodes'[a].lastSeen
     /\ \A k \in DOMAIN edges' : edges'[k].firstSeen <= edges'[k].lastSeen
     /\ \A a \in DOMAIN nodes : nodes'[a].firstSeen = nodes[a].firstSeen
     /\ \A k \in DOMAIN edges : edges'[k].firstSeen = edges[k].firstSeen]_vars

\* the counts of the Edge records in the edge-membership index of a, an
\* edge from a to a taken twice
IndexedCount(a) ==
  Sum([k \in edgesOf[a] |->
         IF k[1] = a /\ k[2] = a THEN 2 * edges[k].count ELSE edges[k].count],
      edgesOf[a])

\* C37: after any sequence of completed recordInteraction calls, handled
\* one at a time from an empty store that does not fail, the
\* interactionCount of the Node of every address equals the sum of count
\* over the Edge records in the edge-membership index of the address, an
\* edge from the address to itself counted twice; an address without a
\* Node has an empty index.
C37_CountConservation ==
  Quiescent =>
    \A a \in Addrs :
      IF a \in DOMAIN nodes
        THEN nodes[a].interactionCount = IndexedCount(a)
        ELSE edgesOf[a] = {}

\* 0xaa was recorded once as the target of itself and once as the target
\* of an event without from: its count is 3
C37_Witness ==
  /\ Quiescent
  /\ edgesOf["0xaa"] = {<<"0xaa", "0xaa">>, <<"unknown", "0xaa">>}
  /\ edges[<<"0xaa", "0xaa">>].count = 1
  /\ edges[<<"unknown", "0xaa">>].count = 1
  /\ nodes["0xaa"].interactionCount = 3

(* -------------------- further claims on the blacklist ------------------ *)
\* the sync answers { ok: true, count }
SyncCompletes ==
  /\ syncOut = NoSyncOut /\ syncOut'.status = 200 /\ ~syncOut'.skipped

\* C38: an authorized sync whose payload holds at least one valid address
\* leaves the blacklist equal to the lowercased valid addresses of the
\* payload, and sets lastUpdated and, when the response carries one, the
\* etag. A fetch answered 304 changes none of the three keys. A payload
\* without a valid address leaves the set as it is and still sets
\* lastUpdated.
C38_SyncEffect ==
  [][LET payload == sync.data
         valid == {ToLowerCase(payload[i]) : i \in
                     {j \in 1..Len(payload) : IsAddress(payload[j])}} IN
     /\ SyncCompletes =>
          /\ Authorized(syncOut'.auth)
          /\ syncOut'.count > 0 <=> valid # {}
          /\ valid # {} => blacklist' = valid
          /\ lastUpdated' = ToString(clock)
          /\ etag' = IF Present(sync.newEtag) THEN sync.newEtag ELSE sync.etag
     /\ sync.pc \in {"idle", "etagGet", "fetch"} => UNCHANGED scamsniffer
     /\ sync.pc = "fetch" /\ sync'.pc # "idle"
          /\ FilterAddresses(sync'.data) = <<>> =>
            sync'.pc = "setLastUpdated"
     /\ sync.pc \in {"setLastUpdated", "setEtag"} => blacklist' = blacklist
    ]_vars

\* a sync with the payload [zz, 0xbb] and an etag has answered count 1:
\* the blacklist is 0xbb alone, and the etag and lastUpdated are set
C38_Witness ==
  /\ syncOut.status = 200 /\ ~syncOut.skipped /\ syncOut.count = 1
  /\ blacklist = {"0xbb"}
  /\ etag = "W/abc"
  /\ lastUpdated = ToString(clock)

\* risk lookups that arrive while a blacklist sync is being handled, on a
\* store that can fail
NextOverlap ==
  \/ rd.pc = "idle" /\ \E auth \in AuthHeaders : SyncStart(auth)
  \/ SyncStep
  \/ SyncFail
  \/ \E raw \in RawAddresses : RiskAddress(raw)
  \/ RiskFlag
  \/ RiskUpdated
  \/ ReadFail

SpecOverlap == InitRisk /\ [][NextOverlap]_vars

\* the members a sync that is in its loop has still to add
Remaining == {sync.addresses[i] : i \in 1..Len(sync.addresses)}

\* C39: the sync replaces the set in steps: the delete empties it and each
\* turn of the loop adds one member, neither touching lastUpdated or the
\* etag, and a risk lookup answers what sismember finds at its own moment
\* in between; a sync that fails leaves the keys as they are at that
\* moment, the set partial and the etag not advanced, the etag being
\* written only by the last step of a sync.
C39_NonAtomicReplace ==
  [][/\ sync.pc = "del" /\ sync'.pc = "sadd" =>
          /\ blacklist' = {}
          /\ Remaining' # {}
          /\ lastUpdated' = lastUpdated /\ etag' = etag
     /\ sync.pc = "sadd" /\ sync' # sync /\ sync'.pc # "idle" =>
          /\ blacklist' = blacklist \cup {Head(sync.addresses)}
          /\ Remaining' = {sync.addresses[i] : i \in 2..Len(sync.addresses)}
          /\ sync'.pc = "sadd" <=> Len(sync.addresses) > 1
          /\ lastUpdated' = lastUpdated /\ etag' = etag
     /\ rd.pc = "riskFlag" /\ rd'.pc = "riskUpdated" =>
          rd'.flagged = (rd.address \in blacklist)
     /\ rd.pc = "riskUpdated" /\ rd'.pc = "idle" /\ out'.status = 200 =>
          out'.flagged = rd.flagged
     /\ sync.pc # "idle" /\ sync'.pc = "idle" /\ syncOut'.status = 500 =>
          UNCHANGED scamsniffer
     /\ etag' # etag => sync.pc = "setEtag" /\ sync'.pc = "idle"
    ]_vars

\* 0xbb was a member when the sync arrived and is in its payload; the
\* sync has deleted the set and added 0xaa, and a lookup of 0xbb that
\* arrived during the sync has found it missing
C39_Witness ==
  /\ sync.pc = "sadd"
  /\ "0xbb" \in sync.before
  /\ "0xbb" \in Remaining
  /\ blacklist = {"0xaa"}
  /\ rd.pc = "riskUpdated" /\ rd.address = "0xbb" /\ ~rd.flagged

(* ------------------------- termination --------------------------------- *)
\* the bodies of the runs that follow each request to its response: a
\* recorded event, an event without from, and an invalid one
LiveBodies ==
  {[from |-> "0xAa", to |-> "0xBb", attrs |-> TxAttrs],
   [from |-> Undefined, to |-> "0xBb", attrs |-> TxAttrs],
   [from |-> "0xAa", to |-> "zz", attrs |-> TxAttrs]}

\* overlapping requests on a store that can fail; Date.now() gives the
\* same reading throughout
NextLive ==
  \/ \E r \in ReqIds, body \in LiveBodies : Receive(r, body, MaxPairCalls)
  \/ \E r \in ReqIds : Handle(r, clock)
  \/ \E r \in ReqIds : Await(r)
  \/ \E r \in ReqIds : StoreFail(r)

\* a handler that was called runs to its first await, and every pending
\* store or provider call eventually returns or throws
Fairness ==
  \A r \in ReqIds : WF_vars(Handle(r, clock) \/ Await(r) \/ StoreFail(r))

SpecLive == Init /\ [][NextLive]_vars /\ Fairness

\* the requests that are being handled
InFlight == {r \in ReqIds : reqs[r].pc # "idle"}

\* C40: when every store and provider call eventually returns or fails,
\* every request that arrives is eventually answered, whatever happens to
\* the other request, and at every moment the responses sent so far (ok,
\* 400 or 500) are one for each request that is no longer being handled.
C40_Termination ==
  /\ \A r \in ReqIds : (reqs[r].pc # "idle") ~> (reqs[r].pc = "idle")
  /\ [](TotalResponses + Cardinality(InFlight) = calls)

\* r1 wrote the edge and was then answered 500 while r2, which had read
\* the missing edge before, is still being handled
C40_Witness ==
  /\ calls = 2
  /\ responses.error = 1
  /\ reqs["r1"].pc = "idle"
  /\ reqs["r2"].pc = "edgeSet" /\ reqs["r2"].edgeData.count = 1
  /\ <<"0xaa", "0xbb">> \in DOMAIN edges
  /\ EdgeKeyOf(reqs["r2"]) = <<"0xaa", "0xbb">>

====
